---- MODULE Spec2Model ----
(***************************************************************************)
(* SM2 key exchange (sm2/sm2_keyexchange.go): two KeyExchange sessions, an *)
(* initiator "A" and a responder "B", driven by their callers and by a     *)
(* network that may deliver the peers' points and tags unmodified or       *)
(* altered.  The curve, the hash, the KDF and the identity digest are the  *)
(* external providers of the key exchange; they are modelled on a small    *)
(* prime-order curve and a small hash so that every case can be computed.  *)
(***************************************************************************)
EXTENDS Integers, Sequences, FiniteSets, TLC

\* ------------------------------------------------------------------ bounds
MaxD == 2        \* long-term private scalars are drawn from 1..MaxD
MaxR == 2        \* ephemeral scalars are drawn from 1..MaxR
KeyLen == 3      \* the keyLength both parties ask for
MaxOdd == 1      \* calls in a run that leave the nominal use of the sessions
MaxOrder == 33   \* avf alone is run for the group orders 1..MaxOrder
MaxX == 33       \* and for the x-coordinates 0..MaxX
MaxKeyLen == 7   \* key lengths 1..MaxKeyLen for the sessions with a long key
MaxCalls == 3    \* calls of the root-pool functions in one run
MaxScalar == 24  \* scalars 0..MaxScalar and as many next to the order and to the top

\* ------------------------------------------------- curve (external provider)
\* y^2 = x^3 + CurveA*x + CurveB over GF(FieldP), a = p - 3 as for SM2, with
\* the prime group order CurveN and the base point (BaseX, BaseY).
FieldP == 5
CurveA == 2
CurveB == 1
CurveN == 7
BaseX == 0
BaseY == 1
CurveBitSize == 3

NilInt == 0 - 1              \* a nil *big.Int
NilBytes == << 0 - 1 >>      \* a nil []byte

Infinity == [X |-> 0, Y |-> 0]
NilPoint == [X |-> NilInt, Y |-> NilInt]   \* &ecdsa.PublicKey{}: X, Y nil

FieldInv(x) == CHOOSE y \in 1..(FieldP - 1) : (x * y) % FieldP = 1

IsOnCurve(x, y) ==
    /\ x \in 0..(FieldP - 1)
    /\ y \in 0..(FieldP - 1)
    /\ (y * y) % FieldP = (x * x * x + CurveA * x + CurveB) % FieldP

CurvePoints == {pt \in [X : 0..(FieldP - 1), Y : 0..(FieldP - 1)] : IsOnCurve(pt.X, pt.Y)}

\* Curve.Add: (0,0) stands for the point at infinity.
CurveAdd(p1, p2) ==
    IF p1 = Infinity THEN p2
    ELSE IF p2 = Infinity THEN p1
    ELSE IF p1.X = p2.X /\ (p1.Y + p2.Y) % FieldP = 0 THEN Infinity
    ELSE LET lam == IF p1 = p2
                    THEN ((3 * p1.X * p1.X + CurveA) * FieldInv((2 * p1.Y) % FieldP)) % FieldP
                    ELSE ((p2.Y - p1.Y) * FieldInv((p2.X - p1.X) % FieldP)) % FieldP
             x3 == (lam * lam - p1.X - p2.X) % FieldP
         IN [X |-> x3, Y |-> (lam * (p1.X - x3) - p1.Y) % FieldP]

AddTable == [p1 \in CurvePoints \cup {Infinity} |->
               [p2 \in CurvePoints \cup {Infinity} |-> CurveAdd(p1, p2)]]

RECURSIVE MultRec(_, _)
MultRec(pt, k) == IF k = 0 THEN Infinity ELSE AddTable[MultRec(pt, k - 1)][pt]

MultTable == [pt \in CurvePoints \cup {Infinity} |->
                [k \in 0..(2 * CurveN) |-> MultRec(pt, k)]]

\* Curve.ScalarMult(x, y, k) and Curve.ScalarBaseMult(k)
ScalarMult(pt, k) == MultTable[pt][k]
ScalarBaseMult(k) == MultTable[[X |-> BaseX, Y |-> BaseY]][k]

\* ----------------------------------------------- bytes, hash, KDF, digest
RECURSIVE Pow256(_)
Pow256(i) == IF i = 0 THEN 1 ELSE 256 * Pow256(i - 1)

\* big-endian, fixed width, zero padded on the left
ToBytes(val, width) == [i \in 1..width |-> (val \div Pow256(width - i)) % 256]

ByteLen == (CurveBitSize + 7) \div 8

\* bigIntToBytes(curve, value): the coordinate in ByteLen bytes
bigIntToBytes(val) == ToBytes(val, ByteLen)

HashSize == 2
HashIV == 7

RECURSIVE HashFold(_, _)
HashFold(h, m) ==
    IF m = << >> THEN h ELSE HashFold((h * 33 + Head(m) + 1) % 65521, Tail(m))

\* sm3: the digest of the bytes written, HashSize bytes
Sm3Sum(m) == ToBytes(HashFold(HashIV, m), HashSize)

RECURSIVE KdfBlocks(_, _, _)
KdfBlocks(zin, ct, limit) ==
    IF ct > limit THEN << >>
    ELSE Sm3Sum(zin \o ToBytes(ct, 4)) \o KdfBlocks(zin, ct + 1, limit)

\* the block counter of the KDF counts below CounterRange (2^32 in the KDF)
CounterRange == 4

\* sm3.Kdf panics when len needs CounterRange - 1 blocks or more
KdfPanics(klen) == (klen + HashSize - 1) \div HashSize >= CounterRange - 1

\* sm3.Kdf(z, len): hash blocks of z || counter, cut to len bytes
Kdf(zin, klen) == SubSeq(KdfBlocks(zin, 1, (klen + HashSize - 1) \div HashSize), 1, klen)

UidLimit == 3                 \* CalculateZA refuses a uid of this length or more
defaultUID == << 49, 50 >>

\* CalculateZA(pub, uid): [err, z]
CalculateZA(pub, uid) ==
    IF Len(uid) >= UidLimit
    THEN [err |-> TRUE, z |-> NilBytes]
    ELSE [err |-> FALSE,
          z |-> Sm3Sum(ToBytes(Len(uid) * 8, 2) \o uid
                       \o bigIntToBytes(CurveA) \o bigIntToBytes(CurveB)
                       \o bigIntToBytes(BaseX) \o bigIntToBytes(BaseY)
                       \o bigIntToBytes(pub.X) \o bigIntToBytes(pub.Y))]

\* subtle.ConstantTimeCompare(x, y) = 1
ConstantTimeEq(x, y) == Len(x) = Len(y) /\ \A i \in 1..Len(x) : x[i] = y[i]

\* len(b) of a possibly nil slice
GoLen(b) == IF b = NilBytes THEN 0 ELSE Len(b)


\* ------------------------------------------------------------ the sessions
Party == {"A", "B"}
Peer(s) == IF s = "A" THEN "B" ELSE "A"

\* the uid each party passes to NewKeyExchange: A none (the default), B its own
uidOf == [A |-> << >>, B |-> << 66 >>]
LongUID == [i \in 1..UidLimit |-> 65]

\* error values
NoErr == "ok"
ErrPeerExists == "sm2: 'peerPub' already exists, please do not set it"
ErrPeerCurve == "sm2: peer public key is not expected/supported"
ErrUidTooLong == "sm2: the uid is too long"
ErrNoPeer == "sm2: no peer public key given"
ErrEphInitiator == "sm2: invalid initiator's ephemeral public key"
ErrEphResponder == "sm2: invalid responder's ephemeral public key"
ErrVInfinity == "sm2: key exchange failed, V is infinity point"
ErrUInfinity == "sm2: key exchange failed, U is infinity point"
ErrSigResponder == "sm2: invalid responder's signature"
ErrSigInitiator == "sm2: invalid initiator's signature"
ErrRand == "rand: read failed"
Panic == "panic: nil pointer dereference"

\* addresses of the *ecdsa.PublicKey objects
Obj(s, kind, idx) == [own |-> s, kind |-> kind, idx |-> idx]
NilObj == Obj("nil", "nil", 0)
Addr == {Obj(s, kind, 0) : s \in Party, kind \in {"secret", "v", "ps"}}
          \cup {Obj(s, "in", i) : s \in Party, i \in 1..2}

\* a long-term public key as the caller holds it
NilPub == [Curve |-> "nil", X |-> NilInt, Y |-> NilInt]
PubKey(d) == [Curve |-> "sm2", X |-> ScalarBaseMult(d).X, Y |-> ScalarBaseMult(d).Y]

\* bitlen(n)
RECURSIVE BitLen(_)
BitLen(m) == IF m = 0 THEN 0 ELSE 1 + BitLen(m \div 2)

RECURSIVE Pow2(_)
Pow2(i) == IF i = 0 THEN 1 ELSE 2 * Pow2(i - 1)

\* w = (bitlen(n) + 1) / 2 - 1
windowBits(n) == (BitLen(n) + 1) \div 2 - 1

\* big.Int.And on non-negative values
RECURSIVE BitAnd(_, _)
BitAnd(x, y) ==
    IF x = 0 \/ y = 0 THEN 0
    ELSE (x % 2) * (y % 2) + 2 * BitAnd(x \div 2, y \div 2)

\* KeyExchange before NewKeyExchange has returned it
NoSession ==
    [live |-> FALSE, genSignature |-> FALSE, keyLength |-> 0, d |-> NilInt,
     pub |-> NilPub, z |-> NilBytes, peerPub |-> NilPub, peerZ |-> NilBytes,
     r |-> NilInt, secret |-> NilObj, peerSecret |-> NilObj,
     w2 |-> NilInt, w2Minus1 |-> NilInt, v |-> NilObj]

VARIABLES
    priv,    \* the parties' long-term private scalars
    ke,      \* the KeyExchange of each party
    heap,    \* the coordinates of every *ecdsa.PublicKey object
    out,     \* what the last exchange operation on each session returned
    call,    \* the most recent call on any session
    hon,     \* progress of the unmodified flow: 0..4, or -1 once left
    phase,   \* how far each caller is: 0 new, 1 first step, 2 confirmed, 3 destroyed
    odd,     \* calls so far that left the nominal use
    st,      \* where each session stands in the state machine of the exchange
    reg,     \* the big.Int values of a run of avf on its own
    klen,    \* the keyLength the callers pass to NewKeyExchange
    roots,   \* smx509: the package variables behind systemRootsPool
    cert,    \* smx509: a CreateCertificate call, up to its serial number
    ord      \* sm2ec: a P256OrdInverse call

sessionVars == << priv, ke, heap, out, call, hon, phase, odd, st, klen >>
vars == << priv, ke, heap, out, call, hon, phase, odd, st, reg, klen, roots, cert, ord >>

\* nothing but the sessions is running
NoRoots == [pc |-> "none"]
NoCert == [pc |-> "none"]
NoOrd == [pc |-> "none"]

\* no run of avf on its own
NoReg == [pc |-> "none", n |-> NilInt, x |-> NilInt, x0 |-> NilInt,
          w2 |-> NilInt, w2Minus1 |-> NilInt, t |-> NilInt]

NoOut == [op |-> "none", err |-> NoErr, point |-> NilObj, tag |-> NilBytes, key |-> NilBytes]
NoCall == [s |-> "none", op |-> "none", err |-> NoErr, hon0 |-> 0, st0 |-> "none",
           pt |-> NilPoint, onCurve |-> TRUE, tagAltered |-> FALSE, mqv |-> FALSE,
           bound |-> FALSE, randOk |-> TRUE, pubNil |-> FALSE, privNil |-> FALSE,
           peer |-> [pub |-> NilPub, uid |-> << >>], tagArg |-> NilBytes,
           again |-> FALSE]

Init ==
    /\ priv \in [Party -> 1..MaxD]
    /\ ke = [s \in Party |-> NoSession]
    /\ heap = [a \in Addr |-> NilPoint]
    /\ out = [s \in Party |-> NoOut]
    /\ call = NoCall
    /\ hon = 0
    /\ phase = [s \in Party |-> 0]
    /\ odd = 0
    /\ st = [s \in Party |-> "None"]
    /\ reg = NoReg
    /\ klen = KeyLen
    /\ roots = NoRoots
    /\ cert = NoCert
    /\ ord = NoOrd

\* ------------------------------------------------------------- operations

\* SetPeerParameters without the 'already exists' check
SetPeerParameters_rebind(k, s, peerPub, peerUID) ==
    IF peerPub = NilPub THEN [k |-> k, err |-> NoErr]
    ELSE LET uid == IF Len(peerUID) = 0 THEN defaultUID ELSE peerUID IN
         IF peerPub.Curve # k.pub.Curve THEN [k |-> k, err |-> ErrPeerCurve]
         ELSE LET za == CalculateZA(peerPub, uid)
                  k1 == [k EXCEPT !.peerPub = peerPub, !.peerZ = za.z]
              IN IF za.err THEN [k |-> k1, err |-> ErrUidTooLong]
                 ELSE [k |-> [k1 EXCEPT !.peerSecret = Obj(s, "ps", 0)], err |-> NoErr]

\* SetPeerParameters that stores the peer's digest in z
SetPeerParameters_overwritesZ(k, s, peerPub, peerUID) ==
    IF peerPub = NilPub THEN [k |-> k, err |-> NoErr]
    ELSE LET uid == IF Len(peerUID) = 0 THEN defaultUID ELSE peerUID IN
         IF k.peerPub # NilPub THEN [k |-> k, err |-> ErrPeerExists]
         ELSE IF peerPub.Curve # k.pub.Curve THEN [k |-> k, err |-> ErrPeerCurve]
         ELSE LET za == CalculateZA(peerPub, uid)
                  k1 == [k EXCEPT !.peerPub = peerPub, !.peerZ = za.z, !.z = za.z]
              IN IF za.err THEN [k |-> k1, err |-> ErrUidTooLong]
                 ELSE [k |-> [k1 EXCEPT !.peerSecret = Obj(s, "ps", 0)], err |-> NoErr]

\* SetPeerParameters that stores peerPub before it compares the curves
SetPeerParameters_assignFirst(k, s, peerPub, peerUID) ==
    IF peerPub = NilPub THEN [k |-> k, err |-> NoErr]
    ELSE LET uid == IF Len(peerUID) = 0 THEN defaultUID ELSE peerUID IN
         IF k.peerPub # NilPub THEN [k |-> k, err |-> ErrPeerExists]
         ELSE IF peerPub.Curve # k.pub.Curve
              THEN [k |-> [k EXCEPT !.peerPub = peerPub], err |-> ErrPeerCurve]
         ELSE LET za == CalculateZA(peerPub, uid)
                  k1 == [k EXCEPT !.peerPub = peerPub, !.peerZ = za.z]
              IN IF za.err THEN [k |-> k1, err |-> ErrUidTooLong]
                 ELSE [k |-> [k1 EXCEPT !.peerSecret = Obj(s, "ps", 0)], err |-> NoErr]

\* SetPeerParameters on the session record k: [k, err]
SetPeerParameters(k, s, peerPub, peerUID) ==
    IF peerPub = NilPub THEN [k |-> k, err |-> NoErr]
    ELSE LET uid == IF Len(peerUID) = 0 THEN defaultUID ELSE peerUID IN
         IF k.peerPub # NilPub THEN [k |-> k, err |-> ErrPeerExists]
         ELSE IF peerPub.Curve # k.pub.Curve THEN [k |-> k, err |-> ErrPeerCurve]
         ELSE LET za == CalculateZA(peerPub, uid)
                  k1 == [k EXCEPT !.peerPub = peerPub, !.peerZ = za.z]
              IN IF za.err THEN [k |-> k1, err |-> ErrUidTooLong]
                 ELSE [k |-> [k1 EXCEPT !.peerSecret = Obj(s, "ps", 0)], err |-> NoErr]

\* NewKeyExchange that hands its own uid, not peerUID, to SetPeerParameters
NewKeyExchange_ownUidForPeer(s, d, peerPub, uid, peerUID, keyLen, genSignature) ==
    LET w == windowBits(CurveN)
        w2 == Pow2(w)
        luid == IF Len(uid) = 0 THEN defaultUID ELSE uid
        za == CalculateZA(PubKey(d), luid)
        k0 == [NoSession EXCEPT !.live = TRUE, !.genSignature = genSignature,
                                !.keyLength = keyLen, !.d = d, !.pub = PubKey(d),
                                !.w2 = w2, !.w2Minus1 = w2 - 1, !.z = za.z]
        sp == SetPeerParameters(k0, s, peerPub, uid)
    IN IF d = NilInt THEN [k |-> NoSession, err |-> Panic]
       ELSE IF za.err THEN [k |-> NoSession, err |-> ErrUidTooLong]
       ELSE IF sp.err # NoErr THEN [k |-> NoSession, err |-> sp.err]
       ELSE [k |-> [sp.k EXCEPT !.secret = Obj(s, "secret", 0), !.v = Obj(s, "v", 0)],
             err |-> NoErr]

\* NewKeyExchange(priv, peerPub, uid, peerUID, keyLen, genSignature): [k, err];
\* k is NoSession when an error is returned.  A nil priv (d = NilInt) is
\* dereferenced by priv.Params() before anything is checked.
NewKeyExchange(s, d, peerPub, uid, peerUID, keyLen, genSignature) ==
    LET w == windowBits(CurveN)
        w2 == Pow2(w)
        luid == IF Len(uid) = 0 THEN defaultUID ELSE uid
        za == CalculateZA(PubKey(d), luid)
        k0 == [NoSession EXCEPT !.live = TRUE, !.genSignature = genSignature,
                                !.keyLength = keyLen, !.d = d, !.pub = PubKey(d),
                                !.w2 = w2, !.w2Minus1 = w2 - 1, !.z = za.z]
        sp == SetPeerParameters(k0, s, peerPub, peerUID)
    IN IF d = NilInt THEN [k |-> NoSession, err |-> Panic]
       ELSE IF za.err THEN [k |-> NoSession, err |-> ErrUidTooLong]
       ELSE IF sp.err # NoErr THEN [k |-> NoSession, err |-> sp.err]
       ELSE [k |-> [sp.k EXCEPT !.secret = Obj(s, "secret", 0), !.v = Obj(s, "v", 0)],
             err |-> NoErr]

\* initKeyExchange: secret = [r]G, r kept
initKeyExchange(k, h, r) ==
    [k |-> [k EXCEPT !.r = r], h |-> [h EXCEPT ![k.secret] = ScalarBaseMult(r)]]

\* avf without the mask
avf_noMask(k, x) == k.w2 + x

\* avf, the associative value function: 2^w + (x AND (2^w - 1))
avf(k, x) == k.w2 + BitAnd(k.w2Minus1, x)

\* mqv with the base point avf(peerSecret.x) * peerSecret, peerPub left out
mqv_noPeerPub(k, h) ==
    IF h[k.secret].X = NilInt \/ k.r = NilInt \/ k.peerSecret = NilObj
    THEN [panic |-> TRUE, h |-> h]
    ELSE IF h[k.peerSecret].X = NilInt THEN [panic |-> TRUE, h |-> h]
    ELSE LET t == (avf(k, h[k.secret].X) * k.r + k.d) % CurveN
             x1 == avf(k, h[k.peerSecret].X)
             p1 == ScalarMult(h[k.peerSecret], x1)
         IN [panic |-> FALSE, h |-> [h EXCEPT ![k.v] = ScalarMult(p1, t)]]

\* mqv: [panic, h]; v is written when no nil is met on the way
mqv(k, h) ==
    IF h[k.secret].X = NilInt \/ k.r = NilInt \/ k.peerSecret = NilObj
    THEN [panic |-> TRUE, h |-> h]
    ELSE IF h[k.peerSecret].X = NilInt THEN [panic |-> TRUE, h |-> h]
    ELSE LET t == (avf(k, h[k.secret].X) * k.r + k.d) % CurveN
             x1 == avf(k, h[k.peerSecret].X)
             p1 == ScalarMult(h[k.peerSecret], x1)
             p2 == CurveAdd([X |-> k.peerPub.X, Y |-> k.peerPub.Y], p1)
         IN [panic |-> FALSE, h |-> [h EXCEPT ![k.v] = ScalarMult(p2, t)]]

\* hash.Write of a possibly nil slice
Bytes(b) == IF b = NilBytes THEN << >> ELSE b

\* sign with the responder's order of digests and points in both roles
sign_oneOrder(k, h, isResponder, prefix) ==
    IF h[k.v].X = NilInt \/ k.peerSecret = NilObj
    THEN [panic |-> TRUE, tag |-> NilBytes]
    ELSE IF h[k.peerSecret].X = NilInt \/ h[k.secret].X = NilInt
    THEN [panic |-> TRUE, tag |-> NilBytes]
    ELSE LET ps == h[k.peerSecret]
             sc == h[k.secret]
             inner == Sm3Sum(bigIntToBytes(h[k.v].X) \o Bytes(k.peerZ) \o Bytes(k.z)
                             \o bigIntToBytes(ps.X) \o bigIntToBytes(ps.Y)
                             \o bigIntToBytes(sc.X) \o bigIntToBytes(sc.Y))
         IN [panic |-> FALSE,
             tag |-> Sm3Sum(<< prefix >> \o bigIntToBytes(h[k.v].Y) \o inner)]

\* sign whose inner hash starts with v.x and v.y
sign_yInInner(k, h, isResponder, prefix) ==
    IF h[k.v].X = NilInt \/ k.peerSecret = NilObj
    THEN [panic |-> TRUE, tag |-> NilBytes]
    ELSE IF h[k.peerSecret].X = NilInt \/ h[k.secret].X = NilInt
    THEN [panic |-> TRUE, tag |-> NilBytes]
    ELSE LET ps == h[k.peerSecret]
             sc == h[k.secret]
             vb == bigIntToBytes(h[k.v].X) \o bigIntToBytes(h[k.v].Y)
             inner == IF isResponder
                      THEN Sm3Sum(vb \o Bytes(k.peerZ) \o Bytes(k.z)
                                  \o bigIntToBytes(ps.X) \o bigIntToBytes(ps.Y)
                                  \o bigIntToBytes(sc.X) \o bigIntToBytes(sc.Y))
                      ELSE Sm3Sum(vb \o Bytes(k.z) \o Bytes(k.peerZ)
                                  \o bigIntToBytes(sc.X) \o bigIntToBytes(sc.Y)
                                  \o bigIntToBytes(ps.X) \o bigIntToBytes(ps.Y))
         IN [panic |-> FALSE,
             tag |-> Sm3Sum(<< prefix >> \o bigIntToBytes(h[k.v].Y) \o inner)]

\* sign that writes the same prefix byte at both steps
sign_onePrefix(k, h, isResponder, prefix) ==
    IF h[k.v].X = NilInt \/ k.peerSecret = NilObj
    THEN [panic |-> TRUE, tag |-> NilBytes]
    ELSE IF h[k.peerSecret].X = NilInt \/ h[k.secret].X = NilInt
    THEN [panic |-> TRUE, tag |-> NilBytes]
    ELSE LET ps == h[k.peerSecret]
             sc == h[k.secret]
             inner == IF isResponder
                      THEN Sm3Sum(bigIntToBytes(h[k.v].X) \o Bytes(k.peerZ) \o Bytes(k.z)
                                  \o bigIntToBytes(ps.X) \o bigIntToBytes(ps.Y)
                                  \o bigIntToBytes(sc.X) \o bigIntToBytes(sc.Y))
                      ELSE Sm3Sum(bigIntToBytes(h[k.v].X) \o Bytes(k.z) \o Bytes(k.peerZ)
                                  \o bigIntToBytes(sc.X) \o bigIntToBytes(sc.Y)
                                  \o bigIntToBytes(ps.X) \o bigIntToBytes(ps.Y))
         IN [panic |-> FALSE,
             tag |-> Sm3Sum(<< 2 >> \o bigIntToBytes(h[k.v].Y) \o inner)]

\* sign that leaves the identity digests out of the inner hash
sign_noDigests(k, h, isResponder, prefix) ==
    IF h[k.v].X = NilInt \/ k.peerSecret = NilObj
    THEN [panic |-> TRUE, tag |-> NilBytes]
    ELSE IF h[k.peerSecret].X = NilInt \/ h[k.secret].X = NilInt
    THEN [panic |-> TRUE, tag |-> NilBytes]
    ELSE LET ps == h[k.peerSecret]
             sc == h[k.secret]
             inner == IF isResponder
                      THEN Sm3Sum(bigIntToBytes(h[k.v].X)
                                  \o bigIntToBytes(ps.X) \o bigIntToBytes(ps.Y)
                                  \o bigIntToBytes(sc.X) \o bigIntToBytes(sc.Y))
                      ELSE Sm3Sum(bigIntToBytes(h[k.v].X)
                                  \o bigIntToBytes(sc.X) \o bigIntToBytes(sc.Y)
                                  \o bigIntToBytes(ps.X) \o bigIntToBytes(ps.Y))
         IN [panic |-> FALSE,
             tag |-> Sm3Sum(<< prefix >> \o bigIntToBytes(h[k.v].Y) \o inner)]

\* sign(isResponder, prefix): [panic, tag]
sign(k, h, isResponder, prefix) ==
    IF h[k.v].X = NilInt \/ k.peerSecret = NilObj
    THEN [panic |-> TRUE, tag |-> NilBytes]
    ELSE IF h[k.peerSecret].X = NilInt \/ h[k.secret].X = NilInt
    THEN [panic |-> TRUE, tag |-> NilBytes]
    ELSE LET ps == h[k.peerSecret]
             sc == h[k.secret]
             inner == IF isResponder
                      THEN Sm3Sum(bigIntToBytes(h[k.v].X) \o Bytes(k.peerZ) \o Bytes(k.z)
                                  \o bigIntToBytes(ps.X) \o bigIntToBytes(ps.Y)
                                  \o bigIntToBytes(sc.X) \o bigIntToBytes(sc.Y))
                      ELSE Sm3Sum(bigIntToBytes(h[k.v].X) \o Bytes(k.z) \o Bytes(k.peerZ)
                                  \o bigIntToBytes(sc.X) \o bigIntToBytes(sc.Y)
                                  \o bigIntToBytes(ps.X) \o bigIntToBytes(ps.Y))
         IN [panic |-> FALSE,
             tag |-> Sm3Sum(<< prefix >> \o bigIntToBytes(h[k.v].Y) \o inner)]

\* generateSharedKey with the digests in the order z, peerZ in both roles
generateSharedKey_oneOrder(k, h, isResponder) ==
    IF h[k.v].X = NilInt THEN [panic |-> TRUE, key |-> NilBytes]
    ELSE LET vb == bigIntToBytes(h[k.v].X) \o bigIntToBytes(h[k.v].Y)
         IN [panic |-> FALSE, key |-> Kdf(vb \o Bytes(k.z) \o Bytes(k.peerZ), k.keyLength)]

\* generateSharedKey that leaves v.y out of the KDF input
generateSharedKey_xOnly(k, h, isResponder) ==
    IF h[k.v].X = NilInt \/ KdfPanics(k.keyLength) THEN [panic |-> TRUE, key |-> NilBytes]
    ELSE LET vb == bigIntToBytes(h[k.v].X)
             buffer == IF isResponder THEN vb \o Bytes(k.peerZ) \o Bytes(k.z)
                       ELSE vb \o Bytes(k.z) \o Bytes(k.peerZ)
         IN [panic |-> FALSE, key |-> Kdf(buffer, k.keyLength)]

\* generateSharedKey that returns the blocks the counter can count when the
\* KDF cannot deliver keyLength bytes
generateSharedKey_shortKey(k, h, isResponder) ==
    IF h[k.v].X = NilInt THEN [panic |-> TRUE, key |-> NilBytes]
    ELSE LET vb == bigIntToBytes(h[k.v].X) \o bigIntToBytes(h[k.v].Y)
             buffer == IF isResponder THEN vb \o Bytes(k.peerZ) \o Bytes(k.z)
                       ELSE vb \o Bytes(k.z) \o Bytes(k.peerZ)
             len == IF KdfPanics(k.keyLength) THEN (CounterRange - 2) * HashSize
                    ELSE k.keyLength
         IN [panic |-> FALSE, key |-> Kdf(buffer, len)]

\* generateSharedKey(isResponder): [panic, key]; the panic of sm3.Kdf passes
\* through
generateSharedKey(k, h, isResponder) ==
    IF h[k.v].X = NilInt \/ KdfPanics(k.keyLength) THEN [panic |-> TRUE, key |-> NilBytes]
    ELSE LET vb == bigIntToBytes(h[k.v].X) \o bigIntToBytes(h[k.v].Y)
             buffer == IF isResponder THEN vb \o Bytes(k.peerZ) \o Bytes(k.z)
                       ELSE vb \o Bytes(k.z) \o Bytes(k.peerZ)
         IN [panic |-> FALSE, key |-> Kdf(buffer, k.keyLength)]

Res(k, h, err, point, tag, key, ranMqv) ==
    [k |-> k, h |-> h, err |-> err, point |-> point, tag |-> tag, key |-> key, mqv |-> ranMqv]

\* respondKeyExchange that stores rA, secret and r before it validates rA
respondKeyExchange_lateCheck(k, h, rA, r) ==
    LET k1 == [k EXCEPT !.peerSecret = rA, !.r = r]
        h1 == [h EXCEPT ![k.secret] = ScalarBaseMult(r)]
    IN IF k.peerPub = NilPub THEN Res(k, h, ErrNoPeer, NilObj, NilBytes, NilBytes, FALSE)
       ELSE IF ~IsOnCurve(h[rA].X, h[rA].Y)
       THEN Res(k1, h1, ErrEphInitiator, NilObj, NilBytes, NilBytes, FALSE)
       ELSE LET m == mqv(k1, h1) IN
            IF m.panic THEN Res(k1, h1, Panic, NilObj, NilBytes, NilBytes, FALSE)
            ELSE IF m.h[k1.v] = Infinity
            THEN Res(k1, m.h, ErrVInfinity, NilObj, NilBytes, NilBytes, TRUE)
            ELSE IF ~k1.genSignature
            THEN Res(k1, m.h, NoErr, k1.secret, NilBytes, NilBytes, TRUE)
            ELSE Res(k1, m.h, NoErr, k1.secret, sign(k1, m.h, TRUE, 2).tag, NilBytes, TRUE)

\* respondKeyExchange that returns a tag whatever genSignature says
respondKeyExchange_alwaysTag(k, h, rA, r) ==
    IF k.peerPub = NilPub THEN Res(k, h, ErrNoPeer, NilObj, NilBytes, NilBytes, FALSE)
    ELSE IF ~IsOnCurve(h[rA].X, h[rA].Y)
    THEN Res(k, h, ErrEphInitiator, NilObj, NilBytes, NilBytes, FALSE)
    ELSE LET k1 == [k EXCEPT !.peerSecret = rA, !.r = r]
             h1 == [h EXCEPT ![k.secret] = ScalarBaseMult(r)]
             m == mqv(k1, h1)
         IN IF m.panic THEN Res(k1, h1, Panic, NilObj, NilBytes, NilBytes, FALSE)
            ELSE IF m.h[k1.v] = Infinity
            THEN Res(k1, m.h, ErrVInfinity, NilObj, NilBytes, NilBytes, TRUE)
            ELSE Res(k1, m.h, NoErr, k1.secret, sign(k1, m.h, TRUE, 2).tag, NilBytes, TRUE)

\* respondKeyExchange(ke, rA, r)
respondKeyExchange(k, h, rA, r) ==
    IF k.peerPub = NilPub THEN Res(k, h, ErrNoPeer, NilObj, NilBytes, NilBytes, FALSE)
    ELSE IF ~IsOnCurve(h[rA].X, h[rA].Y)
    THEN Res(k, h, ErrEphInitiator, NilObj, NilBytes, NilBytes, FALSE)
    ELSE LET k1 == [k EXCEPT !.peerSecret = rA, !.r = r]
             h1 == [h EXCEPT ![k.secret] = ScalarBaseMult(r)]
             m == mqv(k1, h1)
         IN IF m.panic THEN Res(k1, h1, Panic, NilObj, NilBytes, NilBytes, FALSE)
            ELSE IF m.h[k1.v] = Infinity
            THEN Res(k1, m.h, ErrVInfinity, NilObj, NilBytes, NilBytes, TRUE)
            ELSE IF ~k1.genSignature
            THEN Res(k1, m.h, NoErr, k1.secret, NilBytes, NilBytes, TRUE)
            ELSE Res(k1, m.h, NoErr, k1.secret, sign(k1, m.h, TRUE, 2).tag, NilBytes, TRUE)

\* ConfirmResponder without the test of the combination point for (0,0)
ConfirmResponder_noInfinityCheck(k, h, rB, sB) ==
    IF k.peerPub = NilPub THEN Res(k, h, ErrNoPeer, NilObj, NilBytes, NilBytes, FALSE)
    ELSE IF ~IsOnCurve(h[rB].X, h[rB].Y)
    THEN Res(k, h, ErrEphResponder, NilObj, NilBytes, NilBytes, FALSE)
    ELSE LET k1 == [k EXCEPT !.peerSecret = rB]
             m == mqv(k1, h)
         IN IF m.panic THEN Res(k1, h, Panic, NilObj, NilBytes, NilBytes, FALSE)
            ELSE IF GoLen(sB) > 0 /\ ~ConstantTimeEq(sign(k1, m.h, FALSE, 2).tag, sB)
            THEN Res(k1, m.h, ErrSigResponder, NilObj, NilBytes, NilBytes, TRUE)
            ELSE LET key == generateSharedKey(k1, m.h, FALSE).key IN
                 IF ~k1.genSignature
                 THEN Res(k1, m.h, NoErr, NilObj, NilBytes, key, TRUE)
                 ELSE Res(k1, m.h, NoErr, NilObj, sign(k1, m.h, FALSE, 3).tag, key, TRUE)

\* ConfirmResponder that validates rB before it looks for the peer's key
ConfirmResponder_curveFirst(k, h, rB, sB) ==
    IF ~IsOnCurve(h[rB].X, h[rB].Y)
    THEN Res(k, h, ErrEphResponder, NilObj, NilBytes, NilBytes, FALSE)
    ELSE IF k.peerPub = NilPub THEN Res(k, h, ErrNoPeer, NilObj, NilBytes, NilBytes, FALSE)
    ELSE LET k1 == [k EXCEPT !.peerSecret = rB]
             m == mqv(k1, h)
         IN IF m.panic THEN Res(k1, h, Panic, NilObj, NilBytes, NilBytes, FALSE)
            ELSE IF m.h[k1.v] = Infinity
            THEN Res(k1, m.h, ErrUInfinity, NilObj, NilBytes, NilBytes, TRUE)
            ELSE IF GoLen(sB) > 0 /\ ~ConstantTimeEq(sign(k1, m.h, FALSE, 2).tag, sB)
            THEN Res(k1, m.h, ErrSigResponder, NilObj, NilBytes, NilBytes, TRUE)
            ELSE LET key == generateSharedKey(k1, m.h, FALSE).key IN
                 IF ~k1.genSignature
                 THEN Res(k1, m.h, NoErr, NilObj, NilBytes, key, TRUE)
                 ELSE Res(k1, m.h, NoErr, NilObj, sign(k1, m.h, FALSE, 3).tag, key, TRUE)

\* ConfirmResponder that demands a tag when its own genSignature is set
ConfirmResponder_requiresTag(k, h, rB, sB) ==
    IF k.peerPub = NilPub THEN Res(k, h, ErrNoPeer, NilObj, NilBytes, NilBytes, FALSE)
    ELSE IF ~IsOnCurve(h[rB].X, h[rB].Y)
    THEN Res(k, h, ErrEphResponder, NilObj, NilBytes, NilBytes, FALSE)
    ELSE LET k1 == [k EXCEPT !.peerSecret = rB]
             m == mqv(k1, h)
         IN IF m.panic THEN Res(k1, h, Panic, NilObj, NilBytes, NilBytes, FALSE)
            ELSE IF m.h[k1.v] = Infinity
            THEN Res(k1, m.h, ErrUInfinity, NilObj, NilBytes, NilBytes, TRUE)
            ELSE IF (GoLen(sB) > 0 \/ k1.genSignature)
                    /\ ~ConstantTimeEq(sign(k1, m.h, FALSE, 2).tag, Bytes(sB))
            THEN Res(k1, m.h, ErrSigResponder, NilObj, NilBytes, NilBytes, TRUE)
            ELSE LET g == generateSharedKey(k1, m.h, FALSE) IN
                 IF g.panic THEN Res(k1, m.h, Panic, NilObj, NilBytes, NilBytes, TRUE)
                 ELSE IF ~k1.genSignature
                 THEN Res(k1, m.h, NoErr, NilObj, NilBytes, g.key, TRUE)
                 ELSE Res(k1, m.h, NoErr, NilObj, sign(k1, m.h, FALSE, 3).tag, g.key, TRUE)

\* ConfirmResponder(rB, sB)
ConfirmResponder(k, h, rB, sB) ==
    IF k.peerPub = NilPub THEN Res(k, h, ErrNoPeer, NilObj, NilBytes, NilBytes, FALSE)
    ELSE IF ~IsOnCurve(h[rB].X, h[rB].Y)
    THEN Res(k, h, ErrEphResponder, NilObj, NilBytes, NilBytes, FALSE)
    ELSE LET k1 == [k EXCEPT !.peerSecret = rB]
             m == mqv(k1, h)
         IN IF m.panic THEN Res(k1, h, Panic, NilObj, NilBytes, NilBytes, FALSE)
            ELSE IF m.h[k1.v] = Infinity
            THEN Res(k1, m.h, ErrUInfinity, NilObj, NilBytes, NilBytes, TRUE)
            ELSE IF GoLen(sB) > 0 /\ ~ConstantTimeEq(sign(k1, m.h, FALSE, 2).tag, sB)
            THEN Res(k1, m.h, ErrSigResponder, NilObj, NilBytes, NilBytes, TRUE)
            ELSE LET g == generateSharedKey(k1, m.h, FALSE) IN
                 IF g.panic THEN Res(k1, m.h, Panic, NilObj, NilBytes, NilBytes, TRUE)
                 ELSE IF ~k1.genSignature
                 THEN Res(k1, m.h, NoErr, NilObj, NilBytes, g.key, TRUE)
                 ELSE Res(k1, m.h, NoErr, NilObj, sign(k1, m.h, FALSE, 3).tag, g.key, TRUE)

\* ConfirmInitiator that never compares the tag
ConfirmInitiator_noCompare(k, h, s1) ==
    LET g == generateSharedKey(k, h, TRUE) IN
    IF g.panic THEN Res(k, h, Panic, NilObj, NilBytes, NilBytes, FALSE)
    ELSE Res(k, h, NoErr, NilObj, NilBytes, g.key, FALSE)

\* ConfirmInitiator that clears v once the key is derived
ConfirmInitiator_consumesV(k, h, s1) ==
    IF s1 # NilBytes /\ sign(k, h, TRUE, 3).panic
    THEN Res(k, h, Panic, NilObj, NilBytes, NilBytes, FALSE)
    ELSE IF s1 # NilBytes /\ ~ConstantTimeEq(sign(k, h, TRUE, 3).tag, s1)
    THEN Res(k, h, ErrSigInitiator, NilObj, NilBytes, NilBytes, FALSE)
    ELSE LET g == generateSharedKey(k, h, TRUE) IN
         IF g.panic THEN Res(k, h, Panic, NilObj, NilBytes, NilBytes, FALSE)
         ELSE Res(k, [h EXCEPT ![k.v] = Infinity], NoErr, NilObj, NilBytes, g.key, FALSE)

\* ConfirmInitiator(s1)
ConfirmInitiator(k, h, s1) ==
    IF s1 # NilBytes /\ sign(k, h, TRUE, 3).panic
    THEN Res(k, h, Panic, NilObj, NilBytes, NilBytes, FALSE)
    ELSE IF s1 # NilBytes /\ ~ConstantTimeEq(sign(k, h, TRUE, 3).tag, s1)
    THEN Res(k, h, ErrSigInitiator, NilObj, NilBytes, NilBytes, FALSE)
    ELSE LET g == generateSharedKey(k, h, TRUE) IN
         IF g.panic THEN Res(k, h, Panic, NilObj, NilBytes, NilBytes, FALSE)
         ELSE Res(k, h, NoErr, NilObj, NilBytes, g.key, FALSE)

ZeroBytes(b) == IF b = NilBytes THEN b ELSE [i \in 1..Len(b) |-> 0]
ZeroInt(i) == IF i = NilInt THEN i ELSE 0

\* Destroy that leaves the combination point
Destroy_skipV(k, h) ==
    [k |-> [k EXCEPT !.z = ZeroBytes(k.z), !.peerZ = ZeroBytes(k.peerZ), !.r = ZeroInt(k.r)],
     h |-> h]

\* Destroy: z, peerZ, r and v are zeroed in place
Destroy(k, h) ==
    [k |-> [k EXCEPT !.z = ZeroBytes(k.z), !.peerZ = ZeroBytes(k.peerZ), !.r = ZeroInt(k.r)],
     h |-> IF k.v = NilObj THEN h
           ELSE [h EXCEPT ![k.v] = [X |-> ZeroInt(h[k.v].X), Y |-> ZeroInt(h[k.v].Y)]]]


\* --------------------------------------------------- callers and the network

\* The callers follow the flow of the KeyExchange comment (bind the peer once,
\* InitKeyExchange -> ConfirmResponder, RepondKeyExchange -> ConfirmInitiator,
\* Destroy at the end), passing on what the peer returned; a run may leave
\* this nominal use in at most MaxOdd calls, in any way listed below.

GoodPeer(s) == [pub |-> PubKey(priv[Peer(s)]), uid |-> uidOf[Peer(s)]]
NoPeer == [pub |-> NilPub, uid |-> << >>]

\* what a caller may pass as the peer's long-term key and uid
PeerChoices(s) ==
    LET good == PubKey(priv[Peer(s)])
        other == IF uidOf[Peer(s)] = << >> THEN << 66 >> ELSE << >>
    IN { NoPeer, GoodPeer(s),
         [pub |-> good, uid |-> other],
         [pub |-> good, uid |-> LongUID],
         [pub |-> [good EXCEPT !.Curve = "p256"], uid |-> uidOf[Peer(s)]],
         [pub |-> PubKey(priv[s]), uid |-> uidOf[Peer(s)]] }

OffCurve == [X |-> 1, Y |-> 1]
AttackerPoint == ScalarBaseMult(MaxR + 1)
Crafted == {Infinity, OffCurve, AttackerPoint}

\* an object the caller builds for the call: one the session does not hold
Fresh(s) == IF ke[s].peerSecret = Obj(s, "in", 1) THEN Obj(s, "in", 2) ELSE Obj(s, "in", 1)

\* the point a caller passes: an object it builds from the received bytes (a
\* copy of the peer's point, or a crafted point), or the very object the
\* peer returned
PointArgs(s) ==
    LET sent == out[Peer(s)].point IN
    (IF sent = NilObj THEN {}
     ELSE {[addr |-> Fresh(s), pt |-> heap[sent], honest |-> TRUE, copy |-> TRUE],
           [addr |-> sent, pt |-> heap[sent], honest |-> TRUE, copy |-> FALSE]})
    \cup {[addr |-> Fresh(s), pt |-> c, honest |-> FALSE, copy |-> FALSE] : c \in Crafted}

\* t with byte i changed
Alter(t, i, delta) == [t EXCEPT ![i] = (@ + delta) % 256]
Altered(t) ==
    IF t = NilBytes THEN {} ELSE {Alter(t, i, delta) : i \in 1..Len(t), delta \in {1, 128, 255}}

\* the tag a caller passes: none, an empty one, a tag some session returned,
\* or the peer's tag with one byte changed
TagArgs(s) ==
    {NilBytes, << >>} \cup {out[q].tag : q \in Party} \cup Altered(out[Peer(s)].tag)

\* the caller's object is garbage unless the session kept it
Collect(h, k, addr) ==
    IF addr.kind = "in" /\ k.peerSecret # addr THEN [h EXCEPT ![addr] = NilPoint] ELSE h

\* The state machine of a session: Constructed -> Initiated | Responded ->
\* Confirmed; Failed once an operation has returned an error; Destroyed, for
\* good, once Destroy has wiped it.
StateAfter(was, op, err) ==
    IF op = "Destroy" \/ was = "Destroyed" THEN "Destroyed"
    ELSE IF err # NoErr \/ was = "Failed" THEN "Failed"
    ELSE IF op = "InitKeyExchange" THEN "Initiated"
    ELSE IF op = "RepondKeyExchange" THEN "Responded"
    ELSE IF op \in {"ConfirmResponder", "ConfirmInitiator"} THEN "Confirmed"
    ELSE was

Commit(s, k1, h1, o1, c, hon1, ph1, nominal) ==
    /\ nominal \/ odd < MaxOdd
    /\ ke' = [ke EXCEPT ![s] = k1]
    /\ heap' = h1
    /\ out' = [out EXCEPT ![s] = o1]
    /\ call' = c
    /\ hon' = hon1
    /\ phase' = [phase EXCEPT ![s] = ph1]
    /\ odd' = IF nominal THEN odd ELSE odd + 1
    /\ st' = [st EXCEPT ![s] = StateAfter(@, c.op, c.err)]
    /\ UNCHANGED << priv, reg, klen, roots, cert, ord >>

CallOf(s, op, err) ==
    [NoCall EXCEPT !.s = s, !.op = op, !.err = err, !.hon0 = hon, !.st0 = st[s],
                   !.bound = (ke[s].peerPub # NilPub)]

OutOf(op, res) ==
    [op |-> op, err |-> res.err, point |-> res.point, tag |-> res.tag, key |-> res.key]

\* s holds the key and the identity digest its peer really has
BoundTo(s) ==
    /\ ke[Peer(s)].live
    /\ ke[s].peerPub = PubKey(priv[Peer(s)])
    /\ ke[s].peerZ = ke[Peer(s)].z

DoNewKeyExchange(s) ==
    /\ ~ke[s].live
    /\ \E g \in BOOLEAN, pa \in PeerChoices(s), d \in {priv[s], NilInt} :
         LET n == NewKeyExchange(s, d, pa.pub, uidOf[s], pa.uid, klen, g)
             nominal == pa \in {NoPeer, GoodPeer(s)} /\ d # NilInt
         IN /\ nominal \/ odd < MaxOdd
            /\ odd' = IF nominal THEN odd ELSE odd + 1
            /\ ke' = [ke EXCEPT ![s] = n.k]
            /\ call' = [CallOf(s, "NewKeyExchange", n.err) EXCEPT
                           !.pubNil = (pa.pub = NilPub), !.peer = pa, !.privNil = (d = NilInt)]
            /\ st' = [st EXCEPT ![s] = IF n.err = NoErr THEN "Constructed" ELSE @]
    /\ UNCHANGED << priv, heap, out, hon, phase, reg, klen, roots, cert, ord >>

DoSetPeerParameters(s) ==
    /\ ke[s].live
    /\ \E pa \in PeerChoices(s) :
         LET sp == SetPeerParameters(ke[s], s, pa.pub, pa.uid) IN
         Commit(s, sp.k, heap, out[s],
                [CallOf(s, "SetPeerParameters", sp.err) EXCEPT
                    !.pubNil = (pa.pub = NilPub), !.peer = pa],
                hon, phase[s],
                pa = GoodPeer(s) /\ ke[s].peerPub = NilPub /\ phase[s] < 2
                  /\ (s = "B" => phase[s] = 0))

DoDestroy(s) ==
    /\ ke[s].live
    /\ LET d == Destroy(ke[s], heap) IN
       Commit(s, d.k, d.h, out[s], CallOf(s, "Destroy", NoErr), 0 - 1, 3,
              phase[s] = 2 \/ (st[s] = "Failed" /\ phase[s] < 3))

\* randFieldElement: a scalar in 1..n-1, or the reader's error (0 here)
RandChoices == 0..MaxR

DoInitKeyExchange(s) ==
    /\ ke[s].live
    /\ \E r \in RandChoices :
         IF r = 0
         THEN Commit(s, ke[s], heap,
                     [NoOut EXCEPT !.op = "InitKeyExchange", !.err = ErrRand],
                     [CallOf(s, "InitKeyExchange", ErrRand) EXCEPT !.randOk = FALSE],
                     0 - 1, 1, FALSE)
         ELSE LET i == initKeyExchange(ke[s], heap, r) IN
              Commit(s, i.k, i.h,
                     [NoOut EXCEPT !.op = "InitKeyExchange", !.point = i.k.secret],
                     CallOf(s, "InitKeyExchange", NoErr),
                     IF hon = 0 THEN 1 ELSE 0 - 1, 1, phase[s] = 0)

\* RepondKeyExchange that looks for the peer's key before it draws r
DoRepondKeyExchange_checksFirst(s) ==
    /\ ke[s].live
    /\ \E r \in RandChoices, pa \in PointArgs(s) :
         IF r = 0
         THEN LET e == IF ke[s].peerPub = NilPub THEN ErrNoPeer ELSE ErrRand IN
              Commit(s, ke[s], heap,
                     [NoOut EXCEPT !.op = "RepondKeyExchange", !.err = e],
                     [CallOf(s, "RepondKeyExchange", e) EXCEPT
                         !.randOk = FALSE, !.pt = pa.pt, !.onCurve = IsOnCurve(pa.pt.X, pa.pt.Y)],
                     0 - 1, 1, FALSE)
         ELSE LET h0 == [heap EXCEPT ![pa.addr] = pa.pt]
                  res == respondKeyExchange(ke[s], h0, pa.addr, r)
              IN Commit(s, res.k, Collect(res.h, res.k, pa.addr),
                        OutOf("RepondKeyExchange", res),
                        [CallOf(s, "RepondKeyExchange", res.err) EXCEPT
                            !.pt = pa.pt, !.onCurve = IsOnCurve(pa.pt.X, pa.pt.Y), !.mqv = res.mqv],
                        IF hon = 1 /\ pa.honest /\ BoundTo(s) THEN 2 ELSE 0 - 1, 1,
                        phase[s] = 0 /\ pa.copy)

DoRepondKeyExchange(s) ==
    /\ ke[s].live
    /\ \E r \in RandChoices, pa \in PointArgs(s) :
         IF r = 0
         THEN Commit(s, ke[s], heap,
                     [NoOut EXCEPT !.op = "RepondKeyExchange", !.err = ErrRand],
                     [CallOf(s, "RepondKeyExchange", ErrRand) EXCEPT
                         !.randOk = FALSE, !.pt = pa.pt, !.onCurve = IsOnCurve(pa.pt.X, pa.pt.Y)],
                     0 - 1, 1, FALSE)
         ELSE LET h0 == [heap EXCEPT ![pa.addr] = pa.pt]
                  res == respondKeyExchange(ke[s], h0, pa.addr, r)
              IN Commit(s, res.k, Collect(res.h, res.k, pa.addr),
                        OutOf("RepondKeyExchange", res),
                        [CallOf(s, "RepondKeyExchange", res.err) EXCEPT
                            !.pt = pa.pt, !.onCurve = IsOnCurve(pa.pt.X, pa.pt.Y), !.mqv = res.mqv],
                        IF hon = 1 /\ pa.honest /\ BoundTo(s) THEN 2 ELSE 0 - 1, 1,
                        phase[s] = 0 /\ pa.copy)

DoConfirmResponder(s) ==
    /\ ke[s].live
    /\ \E pa \in PointArgs(s), t \in TagArgs(s) :
         LET h0 == [heap EXCEPT ![pa.addr] = pa.pt]
             res == ConfirmResponder(ke[s], h0, pa.addr, t)
             inFlow == hon = 2 /\ out[Peer(s)].err = NoErr /\ pa.honest /\ BoundTo(s)
         IN Commit(s, res.k, Collect(res.h, res.k, pa.addr),
                   OutOf("ConfirmResponder", res),
                   [CallOf(s, "ConfirmResponder", res.err) EXCEPT
                       !.pt = pa.pt, !.onCurve = IsOnCurve(pa.pt.X, pa.pt.Y), !.mqv = res.mqv,
                       !.tagAltered = (inFlow /\ t \in Altered(out[Peer(s)].tag)),
                       !.tagArg = t,
                       !.again = (call.op = "ConfirmResponder" /\ call.s = s
                                    /\ call.tagArg = t /\ call.pt = pa.pt)],
                   IF inFlow /\ t = out[Peer(s)].tag THEN 3 ELSE 0 - 1, 2,
                   phase[s] = 1 /\ pa.copy /\ t = out[Peer(s)].tag)

DoConfirmInitiator(s) ==
    /\ ke[s].live
    /\ \E t \in TagArgs(s) :
         LET res == ConfirmInitiator(ke[s], heap, t)
             inFlow == hon = 3 /\ out[Peer(s)].err = NoErr
         IN Commit(s, res.k, res.h, OutOf("ConfirmInitiator", res),
                   [CallOf(s, "ConfirmInitiator", res.err) EXCEPT
                       !.tagAltered = (inFlow /\ t \in Altered(out[Peer(s)].tag)),
                       !.tagArg = t,
                       !.again = (call.op = "ConfirmInitiator" /\ call.s = s
                                    /\ call.tagArg = t)],
                   IF inFlow /\ t = out[Peer(s)].tag THEN 4 ELSE 0 - 1, 2,
                   phase[s] = 1 /\ t = out[Peer(s)].tag)

Next ==
    \/ \E s \in Party : DoNewKeyExchange(s)
    \/ \E s \in Party : DoSetPeerParameters(s)
    \/ \E s \in Party : DoDestroy(s)
    \/ DoInitKeyExchange("A")
    \/ DoConfirmResponder("A")
    \/ DoRepondKeyExchange("B")
    \/ DoConfirmInitiator("B")

Spec == Init /\ [][Next]_vars

\* --------------------------------------------- sessions with a long key
\* The same sessions in nominal use only, with every keyLength up to
\* MaxKeyLen: beyond what the counter of the KDF can count.
LongKeyInit ==
    /\ priv \in [Party -> 1..MaxD]
    /\ ke = [s \in Party |-> NoSession]
    /\ heap = [a \in Addr |-> NilPoint]
    /\ out = [s \in Party |-> NoOut]
    /\ call = NoCall
    /\ hon = 0
    /\ phase = [s \in Party |-> 0]
    /\ odd = MaxOdd
    /\ st = [s \in Party |-> "None"]
    /\ reg = NoReg
    /\ klen \in 1..MaxKeyLen
    /\ roots = NoRoots
    /\ cert = NoCert
    /\ ord = NoOrd

LongKeySpec == LongKeyInit /\ [][Next]_vars

\* ------------------------------------------- sessions sharing point objects
\* The same sessions, for one pair of long-term keys, in runs that leave the
\* nominal use twice: a caller hands over the very object its peer returned,
\* and the peer uses its session again.
AliasInit ==
    /\ priv = [s \in Party |-> 1]
    /\ ke = [s \in Party |-> NoSession]
    /\ heap = [a \in Addr |-> NilPoint]
    /\ out = [s \in Party |-> NoOut]
    /\ call = NoCall
    /\ hon = 0
    /\ phase = [s \in Party |-> 0]
    /\ odd = MaxOdd - 2
    /\ st = [s \in Party |-> "None"]
    /\ reg = NoReg
    /\ klen = KeyLen
    /\ roots = NoRoots
    /\ cert = NoCert
    /\ ord = NoOrd

AliasSpec == AliasInit /\ [][Next]_vars

\* ------------------------------------------------------- avf on its own
\* The window constants of NewKeyExchange and the two big.Int calls of avf,
\* each writing its receiver, for every group order and every x-coordinate
\* within the bounds.

AvfInit ==
    /\ priv = [s \in Party |-> 1]
    /\ ke = [s \in Party |-> NoSession]
    /\ heap = [a \in Addr |-> NilPoint]
    /\ out = [s \in Party |-> NoOut]
    /\ call = NoCall
    /\ hon = 0
    /\ phase = [s \in Party |-> 0]
    /\ odd = 0
    /\ st = [s \in Party |-> "None"]
    /\ klen = KeyLen
    /\ roots = NoRoots
    /\ cert = NoCert
    /\ ord = NoOrd
    /\ \E n \in 1..MaxOrder, x \in 0..MaxX :
         reg = [NoReg EXCEPT !.pc = "new", !.n = n, !.x = x, !.x0 = x]

\* NewKeyExchange: w2 = 1 << w, w2Minus1 = w2 - 1
AvfWindow ==
    /\ reg.pc = "new"
    /\ reg' = [reg EXCEPT !.pc = "ready", !.w2 = Pow2(windowBits(reg.n)),
                           !.w2Minus1 = Pow2(windowBits(reg.n)) - 1]
    /\ UNCHANGED << sessionVars, roots, cert, ord >>

\* t := (&big.Int{}).And(ke.w2Minus1, x)
AvfAnd ==
    /\ reg.pc = "ready"
    /\ reg' = [reg EXCEPT !.pc = "and", !.t = BitAnd(reg.w2Minus1, reg.x)]
    /\ UNCHANGED << sessionVars, roots, cert, ord >>

\* t.Add(ke.w2, t); return t
AvfAdd ==
    /\ reg.pc = "and"
    /\ reg' = [reg EXCEPT !.pc = "done", !.t = reg.w2 + reg.t]
    /\ UNCHANGED << sessionVars, roots, cert, ord >>

AvfNext == AvfWindow \/ AvfAnd \/ AvfAdd

AvfSpec == AvfInit /\ [][AvfNext]_vars

(***************************************************************************)
(* smx509: the process-wide system root pool and SetFallbackRoots.         *)
(* A *CertPool is the record of what the code reads of it (len(),          *)
(* systemPool) and an identity; NilPool is the nil pointer.                *)
(***************************************************************************)
Goroutine == {1, 2}

NilPool == [id |-> "nil", len |-> 0, systemPool |-> FALSE]

\* the pools a caller passes to SetFallbackRoots (one of them empty)
Fallback ==
    { [id |-> "F1", len |-> 1, systemPool |-> FALSE],
      [id |-> "F2", len |-> 0, systemPool |-> FALSE] }

\* what loadSystemRoots returns on this platform: (pool, error)
Loaded ==
    { [pool |-> NilPool, err |-> TRUE],
      [pool |-> [id |-> "S", len |-> 2, systemPool |-> FALSE], err |-> TRUE],
      [pool |-> NilPool, err |-> FALSE],
      [pool |-> [id |-> "S", len |-> 0, systemPool |-> FALSE], err |-> FALSE],
      [pool |-> [id |-> "S", len |-> 0, systemPool |-> TRUE], err |-> FALSE],
      [pool |-> [id |-> "S", len |-> 2, systemPool |-> FALSE], err |-> FALSE] }

\* values of the GODEBUG setting x509usefallbackroots
Godebug == {"", "0", "1"}

IdleCall == [pc |-> "idle", op |-> "none", arg |-> NilPool, res |-> "none", ret |-> NilPool]

\* var ( once; systemRootsMu; systemRoots; systemRootsErr; fallbacksSet )
\* n, done and who are ghosts: calls started, SetFallbackRoots calls with
\* non-nil roots that have completed, and the goroutine of the last step.
RootsStart(l, dbg) ==
    [pc |-> "run", once |-> FALSE, systemRoots |-> NilPool, systemRootsErr |-> FALSE,
     fallbacksSet |-> FALSE, godebug |-> dbg, loaded |-> l,
     g |-> [i \in Goroutine |-> IdleCall], n |-> 0, done |-> 0, who |-> 0]

\* systemRoots, systemRootsErr = loadSystemRoots(); on an error systemRoots = nil
initSystemRoots(rt) ==
    [rt EXCEPT !.systemRoots = IF rt.loaded.err THEN NilPool ELSE rt.loaded.pool,
               !.systemRootsErr = rt.loaded.err]

\* once.Do(initSystemRoots); return systemRoots (under the read lock)
systemRootsPool(rt) ==
    LET r == IF rt.once THEN rt ELSE [initSystemRoots(rt) EXCEPT !.once = TRUE]
    IN [rt |-> r, ret |-> r.systemRoots]

\* SetFallbackRoots that marks the fallbacks as set only when it replaces
SetFallbackRoots_setOnReplace(rt, r) ==
    IF rt.fallbacksSet
    THEN [rt |-> rt, res |-> "panic: SetFallbackRoots has already been called"]
    ELSE IF /\ rt.systemRoots # NilPool
            /\ (rt.systemRoots.len > 0 \/ rt.systemRoots.systemPool)
            /\ rt.godebug # "1"
         THEN [rt |-> rt, res |-> "ok"]
         ELSE [rt |-> [rt EXCEPT !.fallbacksSet = TRUE, !.systemRoots = r,
                                 !.systemRootsErr = FALSE],
               res |-> "ok"]

\* SetFallbackRoots that never reads x509usefallbackroots
SetFallbackRoots_ignoresGodebug(rt, r) ==
    IF rt.fallbacksSet
    THEN [rt |-> rt, res |-> "panic: SetFallbackRoots has already been called"]
    ELSE LET s == [rt EXCEPT !.fallbacksSet = TRUE]
         IN IF /\ s.systemRoots # NilPool
               /\ (s.systemRoots.len > 0 \/ s.systemRoots.systemPool)
            THEN [rt |-> s, res |-> "ok"]
            ELSE [rt |-> [s EXCEPT !.systemRoots = r, !.systemRootsErr = FALSE],
                  res |-> "ok"]

\* SetFallbackRoots that never sets fallbacksSet
SetFallbackRoots_noFlag(rt, r) ==
    IF rt.fallbacksSet
    THEN [rt |-> rt, res |-> "panic: SetFallbackRoots has already been called"]
    ELSE IF /\ rt.systemRoots # NilPool
            /\ (rt.systemRoots.len > 0 \/ rt.systemRoots.systemPool)
            /\ rt.godebug # "1"
         THEN [rt |-> rt, res |-> "ok"]
         ELSE [rt |-> [rt EXCEPT !.systemRoots = r, !.systemRootsErr = FALSE],
               res |-> "ok"]

\* SetFallbackRoots, the part under systemRootsMu.Lock()
SetFallbackRoots(rt, r) ==
    IF rt.fallbacksSet
    THEN [rt |-> rt, res |-> "panic: SetFallbackRoots has already been called"]
    ELSE LET s == [rt EXCEPT !.fallbacksSet = TRUE]
         IN IF /\ s.systemRoots # NilPool
               /\ (s.systemRoots.len > 0 \/ s.systemRoots.systemPool)
               /\ s.godebug # "1"
            THEN [rt |-> s, res |-> "ok"]
            ELSE [rt |-> [s EXCEPT !.systemRoots = r, !.systemRootsErr = FALSE],
                  res |-> "ok"]

RootsInit ==
    /\ priv = [s \in Party |-> 1]
    /\ ke = [s \in Party |-> NoSession]
    /\ heap = [a \in Addr |-> NilPoint]
    /\ out = [s \in Party |-> NoOut]
    /\ call = NoCall
    /\ hon = 0
    /\ phase = [s \in Party |-> 0]
    /\ odd = 0
    /\ st = [s \in Party |-> "None"]
    /\ klen = KeyLen
    /\ reg = NoReg
    /\ cert = NoCert
    /\ ord = NoOrd
    /\ \E l \in Loaded, dbg \in Godebug : roots = RootsStart(l, dbg)

\* a goroutine calls systemRootsPool()
CallSystemRootsPool(g) ==
    /\ roots.pc = "run"
    /\ roots.g[g].pc = "idle"
    /\ roots.n < MaxCalls
    /\ LET c == systemRootsPool(roots)
       IN roots' = [c.rt EXCEPT !.n = @ + 1, !.who = g,
                                !.g[g] = [IdleCall EXCEPT !.op = "systemRootsPool",
                                                          !.res = "ok", !.ret = c.ret]]
    /\ UNCHANGED << sessionVars, reg, cert, ord >>

\* a goroutine enters SetFallbackRoots(r): the nil check, then
\* _ = systemRootsPool() before the lock is taken
CallSetFallbackRoots(g, r) ==
    /\ roots.pc = "run"
    /\ roots.g[g].pc = "idle"
    /\ roots.n < MaxCalls
    /\ IF r = NilPool
       THEN roots' = [roots EXCEPT !.n = @ + 1, !.who = g,
                                   !.g[g] = [IdleCall EXCEPT !.op = "SetFallbackRoots",
                                                             !.res = "panic: roots must be non-nil"]]
       ELSE roots' = [systemRootsPool(roots).rt EXCEPT
                          !.n = @ + 1, !.who = g,
                          !.g[g] = [IdleCall EXCEPT !.pc = "lock", !.op = "SetFallbackRoots",
                                                    !.arg = r]]
    /\ UNCHANGED << sessionVars, reg, cert, ord >>

\* the goroutine takes systemRootsMu and runs the rest of SetFallbackRoots
LockSetFallbackRoots(g) ==
    /\ roots.pc = "run"
    /\ roots.g[g].pc = "lock"
    /\ LET c == SetFallbackRoots(roots, roots.g[g].arg)
       IN roots' = [c.rt EXCEPT !.done = @ + 1, !.who = g,
                                !.g[g] = [roots.g[g] EXCEPT !.pc = "idle", !.res = c.res]]
    /\ UNCHANGED << sessionVars, reg, cert, ord >>

\* the GODEBUG setting changes while the process runs
SetGodebug(v) ==
    /\ roots.pc = "run"
    /\ v # roots.godebug
    /\ roots' = [roots EXCEPT !.godebug = v, !.who = 0]
    /\ UNCHANGED << sessionVars, reg, cert, ord >>

RootsNext ==
    \/ \E g \in Goroutine : CallSystemRootsPool(g)
    \/ \E g \in Goroutine, r \in Fallback \cup {NilPool} : CallSetFallbackRoots(g, r)
    \/ \E g \in Goroutine : LockSetFallbackRoots(g)
    \/ \E v \in Godebug : SetGodebug(v)

RootsSpec == RootsInit /\ [][RootsNext]_vars

(***************************************************************************)
(* smx509: the same root pool with its synchronisation.  Each goroutine    *)
(* moves through systemRootsPool and SetFallbackRoots one synchronisation  *)
(* step at a time: once.Do, systemRootsMu.Lock/RLock and the unlocks.      *)
(***************************************************************************)
FreeMu == [w |-> 0, r |-> {}]

\* the package variables with the state of once and of systemRootsMu;
\* n, loads and hist are ghosts: calls started, runs of loadSystemRoots, and
\* the SetFallbackRoots calls that went through the locked part, in order (with
\* what each wrote and whether another call was waiting for the lock)
PoolStart(l, dbg) ==
    [pc |-> "conc", onceState |-> "no", mu |-> FreeMu,
     systemRoots |-> NilPool, systemRootsErr |-> FALSE, fallbacksSet |-> FALSE,
     godebug |-> dbg, loaded |-> l,
     g |-> [i \in Goroutine |-> IdleCall], n |-> 0, loads |-> 0, hist |-> << >>]

PoolInit ==
    /\ priv = [s \in Party |-> 1]
    /\ ke = [s \in Party |-> NoSession]
    /\ heap = [a \in Addr |-> NilPoint]
    /\ out = [s \in Party |-> NoOut]
    /\ call = NoCall
    /\ hon = 0
    /\ phase = [s \in Party |-> 0]
    /\ odd = 0
    /\ st = [s \in Party |-> "None"]
    /\ klen = KeyLen
    /\ reg = NoReg
    /\ cert = NoCert
    /\ ord = NoOrd
    /\ \E l \in Loaded, dbg \in Godebug : roots = PoolStart(l, dbg)

\* initSystemRoots returning without systemRootsMu.Unlock()
InitReturn_keepsLock(rt) == [rt EXCEPT !.onceState = "done"]

\* initSystemRoots returns: the deferred Unlock, then once is done
InitReturn(rt) == [rt EXCEPT !.mu = FreeMu, !.onceState = "done"]

\* a goroutine calls systemRootsPool()
GoCallSystemRootsPool(g) ==
    /\ roots.pc = "conc"
    /\ roots.g[g].pc = "idle"
    /\ roots.n < MaxCalls
    /\ roots' = [roots EXCEPT !.n = @ + 1,
                              !.g[g] = [IdleCall EXCEPT !.pc = "once", !.op = "systemRootsPool"]]
    /\ UNCHANGED << sessionVars, reg, cert, ord >>

\* a goroutine calls SetFallbackRoots(r): the nil check, then on to
\* _ = systemRootsPool()
GoCallSetFallbackRoots(g, r) ==
    /\ roots.pc = "conc"
    /\ roots.g[g].pc = "idle"
    /\ roots.n < MaxCalls
    /\ roots' = [roots EXCEPT
                    !.n = @ + 1,
                    !.g[g] = IF r = NilPool
                             THEN [IdleCall EXCEPT !.op = "SetFallbackRoots",
                                                   !.res = "panic: roots must be non-nil"]
                             ELSE [IdleCall EXCEPT !.pc = "once", !.op = "SetFallbackRoots",
                                                   !.arg = r]]
    /\ UNCHANGED << sessionVars, reg, cert, ord >>

\* once.Do(initSystemRoots): the first caller runs it, a caller that finds it
\* running waits, a later caller passes
GoOnce(g) ==
    /\ roots.pc = "conc"
    /\ roots.g[g].pc = "once"
    /\ roots.onceState # "running"
    /\ roots' = IF roots.onceState = "done"
                THEN [roots EXCEPT !.g[g].pc = "rlock"]
                ELSE [roots EXCEPT !.onceState = "running", !.g[g].pc = "initLock"]
    /\ UNCHANGED << sessionVars, reg, cert, ord >>

\* initSystemRoots: systemRootsMu.Lock()
GoInitLock(g) ==
    /\ roots.pc = "conc"
    /\ roots.g[g].pc = "initLock"
    /\ roots.mu = FreeMu
    /\ roots' = [roots EXCEPT !.mu.w = g, !.g[g].pc = "load"]
    /\ UNCHANGED << sessionVars, reg, cert, ord >>

\* initSystemRoots: systemRoots, systemRootsErr = loadSystemRoots()
GoInitLoad(g) ==
    /\ roots.pc = "conc"
    /\ roots.g[g].pc = "load"
    /\ roots' = [initSystemRoots(roots) EXCEPT !.loads = @ + 1, !.g[g].pc = "initReturn"]
    /\ UNCHANGED << sessionVars, reg, cert, ord >>

GoInitReturn(g) ==
    /\ roots.pc = "conc"
    /\ roots.g[g].pc = "initReturn"
    /\ roots' = [InitReturn(roots) EXCEPT !.g[g].pc = "rlock"]
    /\ UNCHANGED << sessionVars, reg, cert, ord >>

\* systemRootsPool: systemRootsMu.RLock()
GoRLock(g) ==
    /\ roots.pc = "conc"
    /\ roots.g[g].pc = "rlock"
    /\ roots.mu.w = 0
    /\ roots' = [roots EXCEPT !.mu.r = @ \cup {g}, !.g[g].pc = "read"]
    /\ UNCHANGED << sessionVars, reg, cert, ord >>

\* systemRootsPool: return systemRoots, with the deferred RUnlock; in
\* SetFallbackRoots the value is dropped and the lock is next
GoRead(g) ==
    /\ roots.pc = "conc"
    /\ roots.g[g].pc = "read"
    /\ roots' = [roots EXCEPT
                    !.mu.r = @ \ {g},
                    !.g[g] = IF roots.g[g].op = "systemRootsPool"
                             THEN [@ EXCEPT !.pc = "idle", !.res = "ok", !.ret = roots.systemRoots]
                             ELSE [@ EXCEPT !.pc = "lock"]]
    /\ UNCHANGED << sessionVars, reg, cert, ord >>

\* SetFallbackRoots: systemRootsMu.Lock()
GoLock(g) ==
    /\ roots.pc = "conc"
    /\ roots.g[g].pc = "lock"
    /\ roots.mu = FreeMu
    /\ roots' = [roots EXCEPT !.mu.w = g, !.g[g].pc = "locked"]
    /\ UNCHANGED << sessionVars, reg, cert, ord >>

\* SetFallbackRoots under the lock, to its return or panic with the
\* deferred Unlock
GoLocked(g) ==
    /\ roots.pc = "conc"
    /\ roots.g[g].pc = "locked"
    /\ LET c == SetFallbackRoots(roots, roots.g[g].arg)
       IN roots' = [c.rt EXCEPT
                       !.mu = FreeMu,
                       !.g[g] = [@ EXCEPT !.pc = "idle", !.res = c.res],
                       !.hist = Append(@, [g |-> g, arg |-> roots.g[g].arg, res |-> c.res,
                                           flag |-> (c.rt.fallbacksSet # roots.fallbacksSet),
                                           assigned |-> (c.rt.systemRoots # roots.systemRoots),
                                           raced |-> (\E h \in Goroutine : roots.g[h].pc = "lock")])]
    /\ UNCHANGED << sessionVars, reg, cert, ord >>

\* the steps of a call in progress
GoRun(g) ==
    \/ GoOnce(g) \/ GoInitLock(g) \/ GoInitLoad(g) \/ GoInitReturn(g)
    \/ GoRLock(g) \/ GoRead(g) \/ GoLock(g) \/ GoLocked(g)

PoolNext ==
    \/ \E g \in Goroutine : GoCallSystemRootsPool(g)
    \/ \E g \in Goroutine, r \in Fallback \cup {NilPool} : GoCallSetFallbackRoots(g, r)
    \/ \E g \in Goroutine : GoOnce(g)
    \/ \E g \in Goroutine : GoInitLock(g)
    \/ \E g \in Goroutine : GoInitLoad(g)
    \/ \E g \in Goroutine : GoInitReturn(g)
    \/ \E g \in Goroutine : GoRLock(g)
    \/ \E g \in Goroutine : GoRead(g)
    \/ \E g \in Goroutine : GoLock(g)
    \/ \E g \in Goroutine : GoLocked(g)

\* the scheduler runs every goroutine that can take a step
PoolSpec == PoolInit /\ [][PoolNext]_vars /\ \A g \in Goroutine : WF_vars(GoRun(g))

(***************************************************************************)
(* smx509.CreateCertificate: the serial number.  A *big.Int is its sign    *)
(* and the big-endian bytes of its magnitude without leading zeros; NilBig *)
(* is the nil pointer.  rand is the sequence of bytes it can still supply. *)
(***************************************************************************)
SerialLen == 20

NilBig == [nil |-> TRUE, neg |-> FALSE, abs |-> << >>]

RECURSIVE StripZeros(_)
StripZeros(b) ==
    IF b = << >> THEN << >>
    ELSE IF Head(b) = 0 THEN StripZeros(Tail(b)) ELSE b

\* new(big.Int).SetBytes(b): b is a big-endian unsigned integer
SetBytes(b) == [nil |-> FALSE, neg |-> FALSE, abs |-> StripZeros(b)]

\* (*big.Int).Sign
Sign(x) == IF x.abs = << >> THEN 0 ELSE IF x.neg THEN -1 ELSE 1

\* octets of the DER INTEGER contents of a non-negative x: one zero octet
\* for 0, a leading zero octet when the top bit of the magnitude is set
EncodedLen(x) ==
    IF x.abs = << >> THEN 1
    ELSE IF Head(x.abs) >= 128 THEN Len(x.abs) + 1 ELSE Len(x.abs)

\* the bytes rand supplies: avail bytes, the first, the SerialLen-th and
\* the others chosen separately
RandStream(avail, first, fill, last) ==
    [i \in 1..avail |-> IF i = 1 THEN first ELSE IF i = SerialLen THEN last ELSE fill]

\* io.ReadFull(rand, buf) for a buffer of n bytes
ReadFull(rand, n) ==
    IF Len(rand) >= n THEN [buf |-> SubSeq(rand, 1, n), err |-> "none"]
    ELSE IF Len(rand) = 0 THEN [buf |-> << >>, err |-> "EOF"]
    ELSE [buf |-> rand, err |-> "unexpected EOF"]

SerialResult(serial, err) == [serialNumber |-> serial, err |-> err]

\* CreateCertificate up to the check of the serial number; the certificate
\* that is built and signed afterwards carries serialNumber
CreateCertificate(rand, templateOk, parentOk, signerOk, templateSerial) ==
    IF ~ templateOk THEN SerialResult(NilBig, "x509: unsupported template parameter type")
    ELSE IF ~ parentOk THEN SerialResult(NilBig, "x509: unsupported parent parameter type")
    ELSE IF ~ signerOk
    THEN SerialResult(NilBig, "x509: certificate private key does not implement crypto.Signer")
    ELSE LET rd == ReadFull(rand, SerialLen)
         IN IF templateSerial = NilBig /\ rd.err # "none" THEN SerialResult(NilBig, rd.err)
            ELSE LET serialNumber ==
                       IF templateSerial = NilBig
                       THEN SetBytes([rd.buf EXCEPT ![1] = @ % 128])
                       ELSE templateSerial
                 IN IF Sign(serialNumber) = -1
                    THEN SerialResult(NilBig, "x509: serial number must be positive")
                    ELSE SerialResult(serialNumber, "none")

\* template.SerialNumber: nil, negative, zero, positive
TemplateSerial ==
    { NilBig,
      [nil |-> FALSE, neg |-> TRUE, abs |-> << 1 >>],
      [nil |-> FALSE, neg |-> FALSE, abs |-> << >>],
      [nil |-> FALSE, neg |-> FALSE, abs |-> << 5 >>],
      [nil |-> FALSE, neg |-> FALSE, abs |-> << 128 >>] }

RandAvail == {0, SerialLen - 1, SerialLen, SerialLen + 1}
RandFirst == {0, 1, 127, 128, 255}
RandFill == {0, 255}
RandLast == {0, 1}

CertInit ==
    /\ priv = [s \in Party |-> 1]
    /\ ke = [s \in Party |-> NoSession]
    /\ heap = [a \in Addr |-> NilPoint]
    /\ out = [s \in Party |-> NoOut]
    /\ call = NoCall
    /\ hon = 0
    /\ phase = [s \in Party |-> 0]
    /\ odd = 0
    /\ st = [s \in Party |-> "None"]
    /\ klen = KeyLen
    /\ reg = NoReg
    /\ roots = NoRoots
    /\ ord = NoOrd
    /\ \E a \in RandAvail, f \in RandFirst, m \in RandFill, l \in RandLast,
          t \in TemplateSerial, tOk \in BOOLEAN, pOk \in BOOLEAN, sOk \in BOOLEAN :
         cert = [pc |-> "call", rand |-> RandStream(a, f, m, l), templateOk |-> tOk,
                 parentOk |-> pOk, signerOk |-> sOk, templateSerial |-> t,
                 serialNumber |-> NilBig, err |-> "none"]

DoCreateCertificate ==
    /\ cert.pc = "call"
    /\ LET c == CreateCertificate(cert.rand, cert.templateOk, cert.parentOk,
                                  cert.signerOk, cert.templateSerial)
       IN cert' = [cert EXCEPT !.pc = "done", !.serialNumber = c.serialNumber,
                               !.err = c.err]
    /\ UNCHANGED << sessionVars, reg, roots, ord >>

CertNext == DoCreateCertificate

CertSpec == CertInit /\ [][CertNext]_vars

(***************************************************************************)
(* sm2ec.P256OrdInverse and its test.  The scalars are OrdLen bytes        *)
(* big-endian and the order is OrdN, a prime above half of 256^OrdLen, as  *)
(* the order of the SM2 curve is for 32 bytes.                             *)
(***************************************************************************)
OrdLen == 2
OrdN == 32771

\* (*big.Int).FillBytes: v as n bytes big-endian
RECURSIVE FillBytes(_, _)
FillBytes(v, n) ==
    IF n = 0 THEN << >> ELSE Append(FillBytes(v \div 256, n - 1), v % 256)

\* the value of a big-endian byte sequence
RECURSIVE FromBytes(_)
FromBytes(b) ==
    IF b = << >> THEN 0
    ELSE 256 * FromBytes(SubSeq(b, 1, Len(b) - 1)) + b[Len(b)]

\* one conditional subtraction of the order
OrdReduce(x) == IF x >= OrdN THEN x - OrdN ELSE x

\* x^e mod OrdN by square and multiply
RECURSIVE OrdExp(_, _)
OrdExp(x, e) ==
    IF e = 0 THEN 1
    ELSE LET h == OrdExp(x, e \div 2)
             sq == (h * h) % OrdN
         IN IF e % 2 = 1 THEN (sq * x) % OrdN ELSE sq

OrdResult(o, err, k) == [out |-> o, err |-> err, k |-> k]

\* P256OrdInverse that writes the result with the low byte first
P256OrdInverse_littleEndian(k) ==
    IF Len(k) # OrdLen THEN OrdResult(<< >>, "invalid scalar length", k)
    ELSE LET b == FillBytes(OrdExp(OrdReduce(FromBytes(k)), OrdN - 2), OrdLen)
         IN OrdResult([i \in 1..OrdLen |-> b[OrdLen + 1 - i]], "none", k)

\* P256OrdInverse(k): the inverse of k modulo the order as k^(N-2), from a
\* copy of k; k is the slice after the call
P256OrdInverse(k) ==
    IF Len(k) # OrdLen THEN OrdResult(<< >>, "invalid scalar length", k)
    ELSE OrdResult(FillBytes(OrdExp(OrdReduce(FromBytes(k)), OrdN - 2), OrdLen), "none", k)

\* the scalars of the test and their neighbours: 0, 1, 20, ..., N, N + 1,
\* N + 20, ..., 256^OrdLen - 1
OrdInput ==
    (0..MaxScalar) \cup ((OrdN - 2)..(OrdN + MaxScalar))
        \cup ((Pow256(OrdLen) - 1 - MaxScalar)..(Pow256(OrdLen) - 1))

OrdInit ==
    /\ priv = [s \in Party |-> 1]
    /\ ke = [s \in Party |-> NoSession]
    /\ heap = [a \in Addr |-> NilPoint]
    /\ out = [s \in Party |-> NoOut]
    /\ call = NoCall
    /\ hon = 0
    /\ phase = [s \in Party |-> 0]
    /\ odd = 0
    /\ st = [s \in Party |-> "None"]
    /\ klen = KeyLen
    /\ reg = NoReg
    /\ roots = NoRoots
    /\ cert = NoCert
    /\ \E x \in OrdInput, n \in {OrdLen - 1, OrdLen} :
         ord = [pc |-> "call", x |-> x, input |-> FillBytes(x, n), out |-> << >>,
                err |-> "none", exp |-> << >>, round |-> 1]

\* out, err = sm2ec.P256OrdInverse(input)
DoP256OrdInverse ==
    /\ ord.pc = "call"
    /\ LET r == P256OrdInverse(ord.input)
       IN ord' = [ord EXCEPT !.pc = "done", !.out = r.out, !.err = r.err, !.input = r.k]
    /\ UNCHANGED << sessionVars, reg, roots, cert >>

\* the first result is kept as exp (the test takes it from math/big);
\* new(big.Int).Add(N, x).FillBytes(input) for the second call
FillAddN ==
    /\ ord.pc = "done"
    /\ ord.round = 1
    /\ ord.err = "none"
    /\ ord.x + OrdN < Pow256(OrdLen)
    /\ ord' = [ord EXCEPT !.pc = "call", !.x = @ + OrdN,
                          !.input = FillBytes(ord.x + OrdN, OrdLen),
                          !.exp = ord.out, !.round = 2]
    /\ UNCHANGED << sessionVars, reg, roots, cert >>

OrdNext == DoP256OrdInverse \/ FillAddN

OrdSpec == OrdInit /\ [][OrdNext]_vars

\* ------------------------------------------------------------------ claims

VOf(s) == heap[ke[s].v]
BothSign == ke["A"].genSignature /\ ke["B"].genSignature

\* C1 as stated: for every key pair and every ephemeral scalar, each step of the
\* unmodified flow succeeds and both parties end with the same key of
\* keyLength bytes.
C1_EveryHonestFlowCompletes ==
    /\ hon = 2 => out["B"].err = NoErr
    /\ hon = 3 => out["A"].err = NoErr
    /\ hon = 4 => /\ out["B"].err = NoErr
                  /\ out["A"].key = out["B"].key
                  /\ Len(out["B"].key) = ke["B"].keyLength

\* C1 amended: the unmodified flow either stops in RepondKeyExchange with the
\* infinity error (the combination point v is (0,0) for these scalars), or it
\* completes: ConfirmResponder and ConfirmInitiator succeed and return the same
\* key, of exactly keyLength bytes.
C1_HonestFlowAgreesUnlessInfinity ==
    /\ hon = 2 => /\ out["B"].err \in {NoErr, ErrVInfinity}
                  /\ out["B"].err = ErrVInfinity <=> VOf("B") = Infinity
    /\ hon = 3 => /\ out["A"].err = NoErr
                  /\ Len(out["A"].key) = ke["A"].keyLength
    /\ hon = 4 => /\ out["B"].err = NoErr
                  /\ out["A"].key = out["B"].key
                  /\ Len(out["B"].key) = ke["B"].keyLength

C1_Witness ==
    /\ hon = 4
    /\ out["B"].err = NoErr
    /\ out["A"].key = out["B"].key
    /\ Len(out["A"].key) = KeyLen

\* C2: in the unmodified flow with genSignature set on both sessions, the tag
\* RepondKeyExchange returned is accepted by ConfirmResponder, which returns its
\* own tag, and that tag is accepted by ConfirmInitiator.
C2_HonestTagsVerify ==
    BothSign =>
      /\ hon = 3 => /\ out["B"].tag # NilBytes
                    /\ out["A"].err = NoErr
                    /\ out["A"].tag # NilBytes
      /\ hon = 4 => /\ out["A"].tag # NilBytes
                    /\ out["B"].err = NoErr

C2_Witness ==
    /\ BothSign
    /\ hon = 4
    /\ out["A"].tag # NilBytes
    /\ out["B"].err = NoErr
    /\ out["B"].key # NilBytes

\* C3: a confirmation step that is given the peer's tag with one byte changed,
\* everything else being as in the unmodified flow, returns the signature error
\* of its role and neither a key nor a tag.
C3_AlteredTagRejected ==
    call.tagAltered =>
      /\ call.op = "ConfirmResponder" => out[call.s].err = ErrSigResponder
      /\ call.op = "ConfirmInitiator" => out[call.s].err = ErrSigInitiator
      /\ call.err = out[call.s].err
      /\ out[call.s].key = NilBytes
      /\ out[call.s].tag = NilBytes

C3_Witness ==
    /\ call.tagAltered
    /\ call.op = "ConfirmInitiator"
    /\ out["B"].err = ErrSigInitiator

ExchangeOps == {"InitKeyExchange", "RepondKeyExchange", "ConfirmResponder", "ConfirmInitiator"}
NothingReturned(s) ==
    out[s].point = NilObj /\ out[s].tag = NilBytes /\ out[s].key = NilBytes

\* C4: RepondKeyExchange and ConfirmResponder given a point that is not on the
\* curve, (0,0) included, return an error and nothing else, do not run the MQV
\* step and leave the session and every point object as they were; with the
\* peer bound (and the random scalar drawn) the error is the invalid ephemeral
\* key error of the role.
C4_Step ==
    (call'.op \in {"RepondKeyExchange", "ConfirmResponder"} /\ ~call'.onCurve) =>
      /\ call'.err \notin {NoErr, Panic}
      /\ (call'.bound /\ call'.randOk) =>
           call'.err = IF call'.op = "RepondKeyExchange" THEN ErrEphInitiator
                       ELSE ErrEphResponder
      /\ out'[call'.s].err = call'.err
      /\ out'[call'.s].point = NilObj
      /\ out'[call'.s].tag = NilBytes
      /\ out'[call'.s].key = NilBytes
      /\ ~call'.mqv
      /\ ke' = ke
      /\ heap' = heap

C4_OffCurvePointRejected == [][C4_Step]_vars

C4_Witness ==
    /\ call.op = "RepondKeyExchange"
    /\ call.pt = Infinity
    /\ call.bound
    /\ call.err = ErrEphInitiator

\* C5: when the MQV step of RepondKeyExchange or ConfirmResponder has left the
\* point at infinity (0,0) in v, the operation returns the infinity error and
\* neither a point, a tag nor a key.
C5_InfinityAborts ==
    (call.op \in {"RepondKeyExchange", "ConfirmResponder"} /\ call.mqv
       /\ VOf(call.s) = Infinity) =>
      /\ call.err = IF call.op = "RepondKeyExchange" THEN ErrVInfinity ELSE ErrUInfinity
      /\ out[call.s].err = call.err
      /\ NothingReturned(call.s)

C5_Witness ==
    /\ call.op = "ConfirmResponder"
    /\ call.mqv
    /\ VOf("A") = Infinity
    /\ call.err = ErrUInfinity

\* C6: an operation that returns a tag or a key has a combination point v that
\* the MQV step of this session computed and that is not (0,0).
C6_KeyOnlyFromValidV ==
    (call.op \in ExchangeOps /\ call.err = NoErr
       /\ (out[call.s].tag # NilBytes \/ out[call.s].key # NilBytes)) =>
      VOf(call.s) \notin {Infinity, NilPoint}

\* C7: ConfirmResponder on a session that is not Initiated and ConfirmInitiator
\* on a session that is not Responded (never responded, failed, or confirmed
\* already) are rejected with an error, not executed.
C7_IllegalTransitionsRejected ==
    /\ (call.op = "ConfirmResponder" /\ call.st0 # "Initiated") =>
         call.err \notin {NoErr, Panic}
    /\ (call.op = "ConfirmInitiator" /\ call.st0 # "Responded") =>
         call.err \notin {NoErr, Panic}

\* C8: once an operation on a session has returned an error, no later
\* operation on it returns a key or a tag.
C8_ErrorsAreTerminal ==
    (call.op \in ExchangeOps /\ call.st0 = "Failed") =>
      ~(call.err = NoErr /\ (out[call.s].tag # NilBytes \/ out[call.s].key # NilBytes))

\* C9: SetPeerParameters with a non-nil peer key on a session whose peer key is
\* set (by NewKeyExchange or by an earlier call) returns the 'already exists'
\* error and changes nothing.
C9_Step ==
    (call'.op = "SetPeerParameters" /\ ~call'.pubNil /\ ke[call'.s].peerPub # NilPub) =>
      /\ call'.err = ErrPeerExists
      /\ ke' = ke
      /\ heap' = heap

C9_PeerBoundOnce == [][C9_Step]_vars

C9_Witness ==
    /\ call.op = "SetPeerParameters"
    /\ ~call.pubNil
    /\ call.bound
    /\ call.err = ErrPeerExists

\* C10: in every state of a session peerPub is set exactly when peerZ is set.
C10_PeerFieldsTogether ==
    \A s \in Party : ke[s].live => (ke[s].peerPub # NilPub <=> ke[s].peerZ # NilBytes)

RespondOrConfirm == {"RepondKeyExchange", "ConfirmResponder"}

\* C11: RepondKeyExchange (its random scalar drawn) and ConfirmResponder on a
\* session whose peerPub is nil return the 'no peer public key' error, also
\* for a point that is not on the curve, return nothing else, do not run the
\* MQV step, and leave peerSecret, secret, r and v as they were.
C11_Step ==
    (call'.op \in RespondOrConfirm /\ ke[call'.s].peerPub = NilPub /\ call'.randOk) =>
      /\ call'.err = ErrNoPeer
      /\ out'[call'.s].err = ErrNoPeer
      /\ out'[call'.s].point = NilObj
      /\ out'[call'.s].tag = NilBytes
      /\ out'[call'.s].key = NilBytes
      /\ ~call'.mqv
      /\ ke'[call'.s] = ke[call'.s]
      /\ heap' = heap

\* C11 as a property of every step
C11_NoPeerKeyRejectedFirst == [][C11_Step]_vars

C11_Witness ==
    /\ call.op = "ConfirmResponder"
    /\ ~call.bound
    /\ ~call.onCurve
    /\ call.err = ErrNoPeer
    /\ ke[call.s].peerSecret = NilObj

EmptyHeap == [a \in Addr |-> NilPoint]

\* C12: a successful SetPeerParameters(peerPub, peerUID) on a session that was
\* constructed without peer parameters, before or after InitKeyExchange, leaves
\* exactly the session that NewKeyExchange with the same peerPub and peerUID
\* (followed by initKeyExchange with the same scalar, if one was drawn) builds;
\* every later operation is a function of that session and its arguments.
C12_Step ==
    (call'.op = "SetPeerParameters" /\ ~call'.pubNil /\ call'.err = NoErr
       /\ call'.st0 \in {"Constructed", "Initiated"}) =>
      LET s == call'.s
          n == NewKeyExchange(s, priv[s], call'.peer.pub, uidOf[s], call'.peer.uid,
                              ke[s].keyLength, ke[s].genSignature)
          e == IF ke[s].r = NilInt THEN [k |-> n.k, h |-> EmptyHeap]
               ELSE initKeyExchange(n.k, EmptyHeap, ke[s].r)
      IN /\ n.err = NoErr
         /\ ke'[s] = e.k
         /\ \A a \in {e.k.secret, e.k.v, e.k.peerSecret} : heap'[a] = e.h[a]

\* C12 as a property of every step
C12_LateBindingEquivalent == [][C12_Step]_vars

C12_Witness ==
    /\ call.op = "SetPeerParameters"
    /\ call.s = "A"
    /\ ~call.pubNil
    /\ call.err = NoErr
    /\ call.st0 = "Initiated"
    /\ ke["A"].r # NilInt
    /\ ke["A"].peerZ # NilBytes

\* C13: once RepondKeyExchange or ConfirmResponder has run the MQV step, the
\* session's ephemeral scalar r is zero.
C13_EphemeralScalarConsumed ==
    (call.op \in RespondOrConfirm /\ call.mqv) => ke[call.s].r = 0

AllZero(b) == b # NilBytes /\ \A i \in 1..Len(b) : b[i] = 0

\* C14 as stated: Destroy never fails, and after it r is 0, every byte of z and
\* of peerZ is 0 and v is (0,0), whatever state the session was in.
C14_DestroyLeavesZeros ==
    call.op = "Destroy" =>
      /\ call.err = NoErr
      /\ ke[call.s].r = 0
      /\ AllZero(ke[call.s].z)
      /\ ke[call.s].peerZ = NilBytes \/ AllZero(ke[call.s].peerZ)
      /\ VOf(call.s) = Infinity

\* C14 amended: Destroy never fails; after it every byte of z and of peerZ is 0,
\* r is 0 if a scalar had been drawn and still nil otherwise, v is (0,0) if the
\* MQV step had written it and still has nil coordinates otherwise; a second
\* Destroy changes nothing.
C14_Step ==
    call'.op = "Destroy" =>
      LET s == call'.s IN
      /\ call'.err = NoErr
      /\ ke'[s].r = IF ke[s].r = NilInt THEN NilInt ELSE 0
      /\ AllZero(ke'[s].z) /\ Len(ke'[s].z) = Len(ke[s].z)
      /\ IF ke[s].peerZ = NilBytes THEN ke'[s].peerZ = NilBytes
         ELSE AllZero(ke'[s].peerZ) /\ Len(ke'[s].peerZ) = Len(ke[s].peerZ)
      /\ heap'[ke'[s].v] = IF heap[ke[s].v] = NilPoint THEN NilPoint ELSE Infinity
      /\ Destroy(ke'[s], heap') = [k |-> ke'[s], h |-> heap']

\* C14 amended, as a property of every step
C14_DestroyZeroesWhatIsSet == [][C14_Step]_vars

C14_Witness ==
    /\ call.op = "Destroy"
    /\ call.st0 = "Destroyed"
    /\ ke[call.s].r = 0
    /\ AllZero(ke[call.s].peerZ)
    /\ VOf(call.s) = Infinity

\* C15: after Destroy the session's own ephemeral public key (secret) and the
\* stored ephemeral public key of the peer (peerSecret) have zeroed coordinates.
C15_DestroyZeroesEphemeralKeys ==
    call.op = "Destroy" =>
      /\ heap[ke[call.s].secret] \in {Infinity, NilPoint}
      /\ ke[call.s].peerSecret = NilObj
           \/ heap[ke[call.s].peerSecret] \in {Infinity, NilPoint}

\* C16: NewKeyExchange sets z to the digest of the local key and uid, w2 to
\* 2^w and w2Minus1 to 2^w - 1, with w = (bitlen(n) + 1) / 2 - 1; SetPeerParameters,
\* InitKeyExchange, RepondKeyExchange, ConfirmResponder and ConfirmInitiator,
\* whatever they return, leave z, w2, w2Minus1, keyLength and genSignature
\* unchanged.
C16_Step ==
    /\ (call'.op = "NewKeyExchange" /\ call'.err = NoErr) =>
         LET k == ke'[call'.s]
             luid == IF uidOf[call'.s] = << >> THEN defaultUID ELSE uidOf[call'.s]
         IN /\ k.w2 = Pow2((BitLen(CurveN) + 1) \div 2 - 1)
            /\ k.w2Minus1 = k.w2 - 1
            /\ k.z = CalculateZA(PubKey(priv[call'.s]), luid).z
    /\ (call'.op \in ExchangeOps \cup {"SetPeerParameters"}) =>
         LET k0 == ke[call'.s]
             k1 == ke'[call'.s]
         IN /\ k1.z = k0.z
            /\ k1.w2 = k0.w2
            /\ k1.w2Minus1 = k0.w2Minus1
            /\ k1.keyLength = k0.keyLength
            /\ k1.genSignature = k0.genSignature

\* C16 as a property of every step
C16_ConstructionFieldsFixed == [][C16_Step]_vars

C16_Witness ==
    /\ call.op = "ConfirmResponder"
    /\ call.err = ErrSigResponder
    /\ ke["A"].z = CalculateZA(PubKey(priv["A"]), defaultUID).z
    /\ ke["A"].w2 = 2
    /\ ke["A"].w2Minus1 = 1

\* C17: for every group order n and every x, with w2 = 2^w and w2Minus1 =
\* 2^w - 1 as NewKeyExchange computes them from n, avf(x) is 2^w + (x mod 2^w),
\* which lies in 2^w .. 2^(w+1) - 1, and x, w2 and w2Minus1 are what they were.
C17_AvfInWindow ==
    reg.pc = "done" =>
      LET w == (BitLen(reg.n) + 1) \div 2 - 1 IN
      /\ reg.t >= Pow2(w)
      /\ reg.t <= Pow2(w + 1) - 1
      /\ reg.t = Pow2(w) + (reg.x0 % Pow2(w))
      /\ reg.t = avf([w2 |-> reg.w2, w2Minus1 |-> reg.w2Minus1], reg.x0)
      /\ reg.x = reg.x0
      /\ reg.w2 = Pow2(w)
      /\ reg.w2Minus1 = Pow2(w) - 1

C17_Witness ==
    /\ reg.pc = "done"
    /\ reg.n = CurveN
    /\ reg.x0 > reg.w2
    /\ reg.t = reg.w2 + 1

\* C18: ConfirmInitiator called again with the same tag on a session that was
\* Responded, and ConfirmResponder called again with the same point and tag on
\* a session that was Initiated, return the same error, key and tag as the
\* first call.
C18_Step ==
    (call'.again /\ call.st0 = (IF call'.op = "ConfirmInitiator" THEN "Responded"
                                ELSE "Initiated")) =>
      /\ out'[call'.s].err = out[call'.s].err
      /\ out'[call'.s].key = out[call'.s].key
      /\ out'[call'.s].tag = out[call'.s].tag

\* C18 as a property of every step
C18_RederivationIdentical == [][C18_Step]_vars

C18_Witness ==
    /\ call.again
    /\ call.op = "ConfirmInitiator"
    /\ call.st0 = "Confirmed"
    /\ call.tagArg # NilBytes
    /\ call.err = NoErr
    /\ out["B"].key # NilBytes

\* C19: NewKeyExchange given a nil private key returns an error and no
\* session; it does not panic.
C19_NilKeyIsConfigError ==
    (call.op = "NewKeyExchange" /\ call.privNil) =>
      /\ call.err \notin {NoErr, Panic}
      /\ ~ke[call.s].live

OtherCurve(pa) == pa.pub # NilPub /\ pa.pub.Curve # "sm2"

\* C20: SetPeerParameters given a peer key on another curve returns an error
\* and changes nothing; on a session with no peer bound the error is the
\* 'not expected/supported' one and a bind with the right key still succeeds
\* afterwards.  NewKeyExchange given such a key returns that error and no
\* session.
C20_Step ==
    /\ (call'.op = "SetPeerParameters" /\ OtherCurve(call'.peer)) =>
         LET s == call'.s IN
         /\ call'.err # NoErr
         /\ ke' = ke
         /\ heap' = heap
         /\ ke[s].peerPub = NilPub =>
              /\ call'.err = ErrPeerCurve
              /\ ke'[s].peerPub = NilPub
              /\ ke'[s].peerZ = ke[s].peerZ
              /\ SetPeerParameters(ke'[s], s, GoodPeer(s).pub, GoodPeer(s).uid).err = NoErr
    /\ (call'.op = "NewKeyExchange" /\ ~call'.privNil /\ OtherCurve(call'.peer)) =>
         /\ call'.err = ErrPeerCurve
         /\ ke'[call'.s] = NoSession

\* C20 as a property of every step
C20_OtherCurveRejected == [][C20_Step]_vars

C20_Witness ==
    /\ call.op = "SetPeerParameters"
    /\ OtherCurve(call.peer)
    /\ ~call.bound
    /\ call.err = ErrPeerCurve
    /\ ke[call.s].peerPub = NilPub

\* C21: a successful RepondKeyExchange returns the session's secret and, when
\* genSignature is set, the tag with prefix 0x02, otherwise no tag; a successful
\* ConfirmResponder returns the key and, when genSignature is set, the tag with
\* prefix 0x03, otherwise no tag.
C21_TagExactlyWhenEnabled ==
    LET s == call.s IN
    /\ (call.op = "RepondKeyExchange" /\ call.err = NoErr) =>
         /\ out[s].point = ke[s].secret
         /\ out[s].key = NilBytes
         /\ IF ke[s].genSignature
            THEN out[s].tag # NilBytes /\ out[s].tag = sign(ke[s], heap, TRUE, 2).tag
            ELSE out[s].tag = NilBytes
    /\ (call.op = "ConfirmResponder" /\ call.err = NoErr) =>
         /\ out[s].key # NilBytes
         /\ IF ke[s].genSignature
            THEN out[s].tag # NilBytes /\ out[s].tag = sign(ke[s], heap, FALSE, 3).tag
            ELSE out[s].tag = NilBytes

C21_Witness ==
    /\ call.op = "RepondKeyExchange"
    /\ call.err = NoErr
    /\ ~ke["B"].genSignature
    /\ out["B"].point = ke["B"].secret
    /\ out["B"].tag = NilBytes

KdfBlocksNeeded(n) == (n + HashSize - 1) \div HashSize

\* C22: a confirmation step of a session whose keyLength needs more blocks than
\* the counter of the KDF can count panics in the KDF and returns no key; every
\* key a session returns has exactly keyLength bytes.
C22_NoShortOrWrappedKey ==
    /\ \A s \in Party :
         out[s].key # NilBytes =>
           /\ Len(out[s].key) = ke[s].keyLength
           /\ KdfBlocksNeeded(ke[s].keyLength) < CounterRange - 1
    /\ (call.op \in {"ConfirmResponder", "ConfirmInitiator"}
          /\ KdfBlocksNeeded(ke[call.s].keyLength) >= CounterRange - 1) =>
         /\ call.err # NoErr
         /\ out[call.s].key = NilBytes

C22_Witness ==
    /\ call.op = "ConfirmInitiator"
    /\ call.st0 = "Responded"
    /\ klen = MaxKeyLen
    /\ call.err = Panic
    /\ out["B"].key = NilBytes

PointBytes(pt) == bigIntToBytes(pt.X) \o bigIntToBytes(pt.Y)

\* the digests and ephemeral coordinates of session s in the order of its role
RoleSeq(s, isResponder) ==
    IF isResponder
    THEN Bytes(ke[s].peerZ) \o ke[s].z
           \o PointBytes(heap[ke[s].peerSecret]) \o PointBytes(heap[ke[s].secret])
    ELSE ke[s].z \o Bytes(ke[s].peerZ)
           \o PointBytes(heap[ke[s].secret]) \o PointBytes(heap[ke[s].peerSecret])

TagOverX(s, isResponder, prefix) ==
    Sm3Sum(<< prefix >> \o bigIntToBytes(VOf(s).Y)
           \o Sm3Sum(bigIntToBytes(VOf(s).X) \o RoleSeq(s, isResponder)))

TagOverXAndY(s, isResponder, prefix) ==
    Sm3Sum(<< prefix >> \o bigIntToBytes(VOf(s).Y)
           \o Sm3Sum(PointBytes(VOf(s)) \o RoleSeq(s, isResponder)))

\* C27 as stated: a tag is hash(prefix || v.y || inner) with inner the hash of
\* v.x || v.y || the digests and ephemeral coordinates in role order.
C27_TagInnerOverXAndY ==
    /\ (call.op = "RepondKeyExchange" /\ call.err = NoErr /\ ke[call.s].genSignature) =>
         out[call.s].tag = TagOverXAndY(call.s, TRUE, 2)
    /\ (call.op = "ConfirmResponder" /\ call.err = NoErr /\ ke[call.s].genSignature) =>
         out[call.s].tag = TagOverXAndY(call.s, FALSE, 3)

\* C27 amended: a tag is hash(prefix || v.y || inner) with inner the hash of
\* v.x (not v.y) || the digests and ephemeral coordinates in role order; on two
\* honest sessions the responder's order and the initiator's order give the
\* same bytes Z_A, Z_B, R_A, R_B.
C27_TagInnerOverX ==
    /\ (call.op = "RepondKeyExchange" /\ call.err = NoErr /\ ke[call.s].genSignature) =>
         out[call.s].tag = TagOverX(call.s, TRUE, 2)
    /\ (call.op = "ConfirmResponder" /\ call.err = NoErr /\ ke[call.s].genSignature) =>
         out[call.s].tag = TagOverX(call.s, FALSE, 3)
    /\ hon = 3 =>
         /\ RoleSeq("B", TRUE) = RoleSeq("A", FALSE)
         /\ RoleSeq("A", FALSE) = ke["A"].z \o ke["B"].z
                                    \o PointBytes(heap[ke["A"].secret])
                                    \o PointBytes(heap[ke["B"].secret])

C27_Witness ==
    /\ hon = 3
    /\ BothSign
    /\ call.op = "ConfirmResponder"
    /\ out["A"].tag = TagOverX("A", FALSE, 3)
    /\ out["B"].tag = TagOverX("B", TRUE, 2)

\* the combination point the MQV step must leave in v, from the session state
MqvPoint(s) ==
    LET k == ke[s]
        t == ((k.w2 + (heap[k.secret].X % k.w2)) * k.r + k.d) % CurveN
        x1 == k.w2 + (heap[k.peerSecret].X % k.w2)
        base == CurveAdd([X |-> k.peerPub.X, Y |-> k.peerPub.Y],
                         ScalarMult(heap[k.peerSecret], x1))
    IN ScalarMult(base, t)

\* C28: after the MQV step of RepondKeyExchange or ConfirmResponder, v is
\* t * (peerPub + avf(peerSecret.x) * peerSecret) with t = (avf(secret.x) * r
\* + d) mod n; in the unmodified flow the initiator's v is the responder's v.
C28_MqvPointAgrees ==
    /\ (call.op \in RespondOrConfirm /\ call.mqv) => VOf(call.s) = MqvPoint(call.s)
    /\ hon = 3 => VOf("A") = VOf("B")

C28_Witness ==
    /\ hon = 3
    /\ call.mqv
    /\ VOf("A") = VOf("B")
    /\ VOf("A") \in CurvePoints
    /\ VOf("A") = MqvPoint("A")

\* the bytes session s feeds to the KDF in its role
KdfInput(s, isResponder) ==
    PointBytes(VOf(s)) \o (IF isResponder THEN Bytes(ke[s].peerZ) \o ke[s].z
                           ELSE ke[s].z \o Bytes(ke[s].peerZ))

\* C29: the key a confirmation step returns is KDF(v.x || v.y || digests in
\* role order, keyLength); in the unmodified flow both parties feed the KDF
\* v.x || v.y || Z_A || Z_B; ConfirmInitiator, which only signs and derives,
\* leaves the session and every point as they were.
C29_Step ==
    /\ (call'.op = "ConfirmResponder" /\ call'.err = NoErr) =>
         out'["A"].key = Kdf(PointBytes(heap'[ke'["A"].v]) \o ke'["A"].z
                               \o Bytes(ke'["A"].peerZ), ke'["A"].keyLength)
    /\ (call'.op = "ConfirmInitiator" /\ call'.err = NoErr) =>
         out'["B"].key = Kdf(PointBytes(heap'[ke'["B"].v]) \o Bytes(ke'["B"].peerZ)
                               \o ke'["B"].z, ke'["B"].keyLength)
    /\ call'.op = "ConfirmInitiator" => (ke' = ke /\ heap' = heap)
    /\ hon' = 4 =>
         /\ PointBytes(heap'[ke'["A"].v]) = PointBytes(heap'[ke'["B"].v])
         /\ ke'["A"].z = ke'["B"].peerZ
         /\ ke'["A"].peerZ = ke'["B"].z

\* C29 as a property of every step
C29_KeyFromOrderedInput == [][C29_Step]_vars

C29_Witness ==
    /\ hon = 4
    /\ call.op = "ConfirmInitiator"
    /\ out["B"].key = Kdf(KdfInput("B", TRUE), KeyLen)
    /\ KdfInput("B", TRUE) = KdfInput("A", FALSE)

\* C30: a confirmation step given an absent tag, nil or of length zero, skips
\* the comparison and never returns a signature error, in ConfirmResponder
\* and in ConfirmInitiator alike.
C30_AbsentTagSkipsCheck ==
    (call.op \in {"ConfirmResponder", "ConfirmInitiator"} /\ GoLen(call.tagArg) = 0) =>
      call.err \notin {ErrSigResponder, ErrSigInitiator}

\* the system pool the platform offers: nil when loading failed
SystemAvailable(l) == IF l.err THEN NilPool ELSE l.pool

\* a step in which goroutine g finishes the locked part of SetFallbackRoots
LockStep(g) == roots.g[g].pc = "lock" /\ roots'.g[g].pc = "idle" /\ roots'.who = g

\* a step in which goroutine g calls SetFallbackRoots(nil)
NilStep(g) ==
    /\ roots'.n = roots.n + 1
    /\ roots'.who = g
    /\ roots'.g[g].op = "SetFallbackRoots"
    /\ roots'.g[g].pc = "idle"

C23_Step ==
    \A g \in Goroutine :
      /\ NilStep(g) =>
           /\ roots'.g[g].res = "panic: roots must be non-nil"
           /\ roots'.fallbacksSet = roots.fallbacksSet
           /\ roots'.systemRoots = roots.systemRoots
      /\ LockStep(g) =>
           /\ roots.g[g].arg # NilPool
           /\ roots.done = 0 => roots'.g[g].res = "ok"
           /\ roots.done > 0 =>
                /\ roots'.g[g].res = "panic: SetFallbackRoots has already been called"
                /\ roots'.systemRoots = roots.systemRoots

\* C23: SetFallbackRoots(nil) panics and changes nothing; of the calls with
\* non-nil roots the first to complete returns normally and every later one
\* panics with "already been called", also when the first call left the
\* system roots in place.
C23_OnceOnly == [][C23_Step]_vars

\* two calls with non-nil roots have completed, one normally and one with the
\* panic, and the first one did not replace the system roots
C23_Witness ==
    /\ roots.pc = "run"
    /\ roots.done = 2
    /\ roots.systemRoots.id = "S"
    /\ \E g, h \in Goroutine :
         /\ roots.g[g].op = "SetFallbackRoots" /\ roots.g[g].res = "ok"
         /\ roots.g[h].res = "panic: SetFallbackRoots has already been called"

\* no system pool is available, or the fallback is forced
UseFallback(rt) ==
    \/ rt.systemRoots = NilPool
    \/ (rt.systemRoots.len = 0 /\ ~ rt.systemRoots.systemPool)
    \/ rt.godebug = "1"

C24_Step ==
    /\ \A g \in Goroutine :
         (LockStep(g) /\ roots.done = 0) =>
            roots'.systemRoots = IF UseFallback(roots) THEN roots.g[g].arg
                                 ELSE roots.systemRoots
    /\ \A g \in Goroutine :
         (roots'.n = roots.n + 1 /\ roots'.who = g
            /\ roots'.g[g].op = "systemRootsPool") =>
            roots'.g[g].ret = roots'.systemRoots
    /\ (roots'.once /\ roots'.done = 0) =>
            roots'.systemRoots = SystemAvailable(roots'.loaded)

\* C24: the first SetFallbackRoots(roots) to complete makes roots the pool of
\* systemRootsPool exactly when systemRoots is nil, or empty and not a platform
\* pool, or x509usefallbackroots is "1", and otherwise leaves systemRoots as it
\* was; until a SetFallbackRoots call completes the pool is the loaded system
\* pool whatever the setting is.
C24_ReplaceWhenUnavailableOrForced == [][C24_Step]_vars

\* the first call replaced a loaded, non-empty system pool (the setting forced it)
C24_Witness ==
    /\ roots.pc = "run"
    /\ roots.done = 1
    /\ roots.systemRoots \in Fallback
    /\ ~ roots.loaded.err
    /\ roots.loaded.pool.len > 0

\* a finished CreateCertificate call whose three parameters had usable types
CertDone == cert.pc = "done" /\ cert.templateOk /\ cert.parentOk /\ cert.signerOk

\* C25: with template.SerialNumber nil, every 20 bytes read from rand give a
\* serial number that is positive and at most 20 octets when encoded; the call
\* fails when rand has fewer than 20 bytes; a negative template serial number
\* is rejected with "serial number must be positive".
C25_GeneratedSerialConforms ==
    CertDone =>
      /\ (cert.templateSerial = NilBig /\ Len(cert.rand) >= SerialLen) =>
            /\ cert.err = "none"
            /\ Sign(cert.serialNumber) = 1
            /\ EncodedLen(cert.serialNumber) <= SerialLen
      /\ (cert.templateSerial = NilBig /\ Len(cert.rand) < SerialLen) =>
            cert.err \in {"EOF", "unexpected EOF"}
      /\ (cert.templateSerial # NilBig /\ Sign(cert.templateSerial) = -1) =>
            cert.err = "x509: serial number must be positive"

RandFailed(s) ==
    /\ call' # call
    /\ call'.s = s
    /\ call'.op \in {"InitKeyExchange", "RepondKeyExchange"}
    /\ ~ call'.randOk

C31_Step ==
    \A s \in Party :
      RandFailed(s) =>
        /\ out'[s].err = ErrRand
        /\ out'[s].point = NilObj /\ out'[s].tag = NilBytes /\ out'[s].key = NilBytes
        /\ ke'[s].r = ke[s].r
        /\ ke'[s].secret = ke[s].secret
        /\ ke'[s].peerSecret = ke[s].peerSecret
        /\ ke'[s].v = ke[s].v
        /\ \A a \in {ke[s].secret, ke[s].peerSecret, ke[s].v} \ {NilObj} : heap'[a] = heap[a]

\* C31: when the random source fails, InitKeyExchange and RepondKeyExchange
\* return its error with no point and no tag, and r, secret, peerSecret and v
\* keep their values; RepondKeyExchange reports it even on a session without
\* the peer's key and for a point that is not on the curve.
C31_RandFailureFirst == [][C31_Step]_vars

\* RepondKeyExchange has met a failing random source on a session that has no
\* peer key, called with a point that is not on the curve
C31_Witness ==
    /\ call.op = "RepondKeyExchange"
    /\ ~ call.randOk
    /\ ~ call.bound
    /\ ~ call.onCurve
    /\ out[call.s].err = ErrRand

AlreadyCalled == "panic: SetFallbackRoots has already been called"

\* the calls that went through the locked part: the first returned, the
\* others panicked and wrote nothing
C32_Hist ==
    \A i \in 1..Len(roots.hist) :
      IF i = 1
      THEN roots.hist[i].res = "ok" /\ roots.hist[i].flag
      ELSE /\ roots.hist[i].res = AlreadyCalled
           /\ ~ roots.hist[i].flag
           /\ ~ roots.hist[i].assigned

C32_Step ==
    /\ roots.fallbacksSet => roots'.fallbacksSet
    /\ (roots'.fallbacksSet # roots.fallbacksSet) => Len(roots.hist) = 0
    /\ (roots.onceState = "done" /\ roots'.systemRoots # roots.systemRoots) =>
          /\ Len(roots.hist) = 0
          /\ Len(roots'.hist) = 1
          /\ roots'.systemRoots = roots.g[roots'.hist[1].g].arg

\* C32: however the SetFallbackRoots calls with non-nil roots of the goroutines
\* interleave, one of them returns normally and every other one panics with
\* "SetFallbackRoots has already been called"; fallbacksSet goes from false to
\* true once and never back, and after initialisation systemRoots is assigned
\* by the first caller only.
C32_OneCallerWins == [](roots.pc = "conc" => C32_Hist) /\ [][C32_Step]_vars

\* two goroutines were inside SetFallbackRoots at the same time, both waiting
\* for the lock, and both calls are over: one returned, one panicked
C32_Witness ==
    /\ roots.pc = "conc"
    /\ Len(roots.hist) = 2
    /\ roots.hist[1].g # roots.hist[2].g
    /\ roots.hist[1].assigned
    /\ roots.hist[1].raced
    /\ roots.n = 2
    /\ roots.g[roots.hist[2].g].res = AlreadyCalled

\* the pool a systemRootsPool call has to return: the fallback once a
\* SetFallbackRoots call has installed it, the loaded system pool before
PoolNow ==
    IF Len(roots.hist) > 0 /\ roots.hist[1].assigned
    THEN roots.hist[1].arg
    ELSE SystemAvailable(roots.loaded)

\* a step in which goroutine g returns from systemRootsPool
PoolReturn(g) ==
    /\ roots.g[g].pc = "read"
    /\ roots.g[g].op = "systemRootsPool"
    /\ roots'.g[g].pc = "idle"

C33_Step ==
    \A g \in Goroutine :
      PoolReturn(g) =>
        /\ roots.onceState = "done"
        /\ roots.loads = 1
        /\ roots'.g[g].ret = PoolNow
        /\ (roots.loaded.err /\ Len(roots.hist) = 0) => roots'.g[g].ret = NilPool

\* C33: however systemRootsPool and SetFallbackRoots calls interleave,
\* loadSystemRoots runs at most once, a systemRootsPool call returns after the
\* initialisation is complete (nil when loading failed and no fallback is
\* installed), and every call that has started returns or panics.
C33_OneLoadNoDeadlock ==
    /\ [](roots.pc = "conc" => roots.loads <= 1)
    /\ [][C33_Step]_vars
    /\ \A g \in Goroutine :
         (roots.pc = "conc" /\ roots.g[g].pc # "idle") ~> (roots.g[g].pc = "idle")

\* a systemRootsPool call has returned nil after a failed load while a
\* SetFallbackRoots call of the other goroutine waits for the lock
C33_Witness ==
    /\ roots.pc = "conc"
    /\ roots.loads = 1
    /\ roots.loaded.err
    /\ \E g, h \in Goroutine :
         /\ roots.g[g].op = "systemRootsPool" /\ roots.g[g].res = "ok"
         /\ roots.g[g].ret = NilPool
         /\ roots.g[h].op = "SetFallbackRoots" /\ roots.g[h].pc = "lock"

ConfirmOps == {"ConfirmResponder", "ConfirmInitiator"}

\* C34: a session created with genSignature = true returns a key from
\* ConfirmResponder or ConfirmInitiator only when it was given a tag, which it
\* has then verified; with an empty or nil tag it returns none.
C34_KeyOnlyAfterVerifiedTag ==
    (call.op \in ConfirmOps /\ ke[call.s].genSignature /\ out[call.s].key # NilBytes)
       => GoLen(call.tagArg) > 0

\* the tag the session expects from its peer, as it stands
Expected(s, isResponder, prefix) == sign(ke[s], heap, isResponder, prefix).tag

\* C35 as stated: the unmodified flow completes with equal keys for every
\* combination of the two genSignature flags and no step returns an error; a
\* tag is sent exactly by a side that generates tags, the side that receives
\* one finds it equal to the tag it computes, the side that receives none
\* skips the comparison.
C35_AnyFlagsComplete ==
    /\ hon = 2 => /\ out["B"].err = NoErr
                  /\ (out["B"].tag # NilBytes) <=> ke["B"].genSignature
    /\ hon = 3 => /\ out["A"].err = NoErr
                  /\ call.op = "ConfirmResponder" =>
                       /\ call.tagArg = out["B"].tag
                       /\ ke["B"].genSignature => call.tagArg = Expected("A", FALSE, 2)
                  /\ (out["A"].tag # NilBytes) <=> ke["A"].genSignature
    /\ hon = 4 => /\ out["B"].err = NoErr
                  /\ call.op = "ConfirmInitiator" =>
                       /\ call.tagArg = out["A"].tag
                       /\ ke["A"].genSignature => call.tagArg = Expected("B", TRUE, 3)
                  /\ out["A"].key = out["B"].key

\* C35 amended: as above, except that RepondKeyExchange may stop the flow with
\* the infinity error when the scalars make v the point at infinity.
C35_AnyFlagsCompleteUnlessInfinity ==
    /\ hon = 2 => /\ out["B"].err \in {NoErr, ErrVInfinity}
                  /\ out["B"].err = NoErr =>
                       ((out["B"].tag # NilBytes) <=> ke["B"].genSignature)
    /\ hon = 3 => /\ out["A"].err = NoErr
                  /\ call.op = "ConfirmResponder" =>
                       /\ call.tagArg = out["B"].tag
                       /\ ke["B"].genSignature => call.tagArg = Expected("A", FALSE, 2)
                  /\ (out["A"].tag # NilBytes) <=> ke["A"].genSignature
    /\ hon = 4 => /\ out["B"].err = NoErr
                  /\ call.op = "ConfirmInitiator" =>
                       /\ call.tagArg = out["A"].tag
                       /\ ke["A"].genSignature => call.tagArg = Expected("B", TRUE, 3)
                  /\ out["A"].key = out["B"].key

\* the unmodified flow is complete with only the initiator generating tags:
\* the initiator got no tag, the responder got one and accepted it
C35_Witness ==
    /\ hon = 4
    /\ ke["A"].genSignature /\ ~ ke["B"].genSignature
    /\ out["B"].tag = NilBytes /\ out["A"].tag # NilBytes
    /\ call.op = "ConfirmInitiator" /\ call.tagArg = out["A"].tag
    /\ out["B"].err = NoErr
    /\ out["A"].key = out["B"].key

\* a step in which session s is given, as the peer's tag, the tag that s
\* itself returned from op
OwnTagBack(s, confirm, op) ==
    /\ call' # call
    /\ call'.s = s /\ call'.op = confirm
    /\ out[s].op = op /\ out[s].err = NoErr /\ out[s].tag # NilBytes
    /\ call'.tagArg = out[s].tag

C36_Step ==
    /\ OwnTagBack("B", "ConfirmInitiator", "RepondKeyExchange") =>
          /\ out'["B"].err = ErrSigInitiator
          /\ out'["B"].key = NilBytes
    /\ OwnTagBack("A", "ConfirmResponder", "ConfirmResponder") =>
          /\ out'["A"].err # NoErr
          /\ call'.onCurve /\ call'.pt = heap[ke["A"].peerSecret] =>
                out'["A"].err = ErrSigResponder
          /\ out'["A"].key = NilBytes

\* C36: on a session that can compute tags, the tag with prefix 0x02 differs
\* from the tag with prefix 0x03; the responder's own first tag handed to its
\* ConfirmInitiator is rejected, and the initiator's own final tag handed to
\* its ConfirmResponder is rejected.
C36_TagsBoundToStep ==
    /\ [](\A s \in Party, isResponder \in BOOLEAN :
            (ke[s].live /\ ~ sign(ke[s], heap, isResponder, 2).panic) =>
               Expected(s, isResponder, 2) # Expected(s, isResponder, 3))
    /\ [][C36_Step]_vars

\* the responder was handed its own first tag and has rejected it
C36_Witness ==
    /\ call.op = "ConfirmInitiator"
    /\ call.tagArg = Expected("B", TRUE, 2)
    /\ out["B"].err = ErrSigInitiator

\* both sessions are in use and hold an identity digest for each party
BothBound ==
    \A s \in Party : ke[s].live /\ phase[s] < 3 /\ ke[s].peerPub # NilPub
                       /\ ke[s].peerZ # NilBytes

\* the sessions do not hold the same two identity digests
Disagree ==
    /\ BothBound
    /\ \E s \in Party : ke[s].peerZ # ke[Peer(s)].z

\* a step in which session s is given the tag its peer returned last
PeerTagGiven(s, confirm) ==
    /\ call' # call
    /\ call'.s = s /\ call'.op = confirm
    /\ out[Peer(s)].err = NoErr /\ out[Peer(s)].tag # NilBytes
    /\ call'.tagArg = out[Peer(s)].tag

C37_Step ==
    \A s \in Party :
      (Disagree /\ (PeerTagGiven(s, "ConfirmResponder") \/ PeerTagGiven(s, "ConfirmInitiator")))
         => /\ out'[s].err # NoErr
            /\ out'[s].key = NilBytes

\* C37: when the two sessions do not hold the same identity digests (one bound
\* its peer with another uid or another public key than the peer uses), a
\* confirmation step given the peer's tag fails and returns no key, and keys
\* returned by the two sessions are different.
C37_BoundToIdentities ==
    /\ []((Disagree /\ out["A"].key # NilBytes /\ out["B"].key # NilBytes)
             => out["A"].key # out["B"].key)
    /\ [][C37_Step]_vars

\* the initiator bound the responder under another uid and has rejected the
\* responder's tag
C37_Witness ==
    /\ Disagree
    /\ ke["A"].peerPub = ke["B"].pub
    /\ call.op = "ConfirmResponder"
    /\ call.tagArg = out["B"].tag /\ out["B"].tag # NilBytes
    /\ out["A"].err = ErrSigResponder

\* session s has accepted a peer point and keeps it
Accepted(s) ==
    /\ ke[s].live
    /\ ke[s].peerSecret # NilObj
    /\ IsOnCurve(heap[ke[s].peerSecret].X, heap[ke[s].peerSecret].Y)
    /\ out[s].op \in RespondOrConfirm /\ out[s].err = NoErr

C38_Step ==
    \A s \in Party :
      (Accepted(s) /\ call'.s # s) =>
         heap'[ke[s].peerSecret] = heap[ke[s].peerSecret]

\* C38: once RepondKeyExchange or ConfirmResponder has accepted a point, no
\* call on the other session changes the coordinates of the peer point the
\* session holds and uses in its tags.
C38_PeerPointOwned == [][C38_Step]_vars

====
